---- MODULE Spec2Model ----
(***************************************************************************)
(* Model of the diagnostic parser of src/src/parser.rs and of the          *)
(* remediation of src/src/fixer.rs.                                        *)
(*                                                                         *)
(* A text (Rust &str / String) is a sequence of lexemes.  A lexeme is a    *)
(* short run of characters (a punctuation mark, a digit, a word, a fixed   *)
(* phrase); the text it stands for is the concatenation of its lexemes.    *)
(* The regular expressions of the source are translated lexeme by lexeme: *)
(* a literal is a fixed lexeme sequence, a character class is the set of   *)
(* lexemes made of characters of that class, + is a greedy run, and a      *)
(* search returns the leftmost match, as Regex::captures does.            *)
(***************************************************************************)
EXTENDS Integers, Sequences, FiniteSets, TLC

VARIABLES input, pc, consulted, parsed, out, fix, ret, history,
          config, languages, errors, total_errors, next_line, count

\* the variables of the project scan
scanvars == <<languages, errors, total_errors, next_line, count>>

vars == <<input, pc, consulted, parsed, out, fix, ret, history, config, scanvars>>

(***************************************************************************)
(* Option<T>: None is the empty sequence, Some(x) the one-element sequence *)
(***************************************************************************)
None == <<>>

Some(x) == <<x>>

IsSome(o) == Len(o) = 1

IsNone(o) == Len(o) = 0

Unwrap(o) == o[1]

(***************************************************************************)
(* Lexemes and the character classes the regular expressions use.         *)
(***************************************************************************)
NL == "\n"

SP == " "

\* the grave accent (back quote), which a TLA+ string cannot hold
BQ == "<backquote>"

Digits == {"0", "1", "2", "3", "4", "5", "6", "7", "8", "9"}

DigitVal(d) ==
    CASE d = "0" -> 0 [] d = "1" -> 1 [] d = "2" -> 2 [] d = "3" -> 3
      [] d = "4" -> 4 [] d = "5" -> 5 [] d = "6" -> 6 [] d = "7" -> 7
      [] d = "8" -> 8 [] d = "9" -> 9

\* lexemes that contain a white-space character (\s)
HasSpace ==
    {NL, SP, "\", line ", "#include <", "): error ", ": ", ": error: ",
     ": warning: ", "Cannot find module", "Cannot find name", "File \"",
     "Invalid Conversion", "Invalid URL", "Missing Semicolon",
     "No module named", "Use of", "as mutable", "cannot find",
     "cannot find module", "cannot find name", "cannot import name",
     "completely random text", "could not compile", "error: ", "file \"",
     "has no attribute", "in this scope", "invalid conversion",
     "invalid syntax", "invalid url", "is not a member of", "is not defined",
     "mismatched types", "missing semicolon", "no module named",
     "unused variable", "use of", "was never closed", "was not declared"}

\* lexemes that contain a colon
HasColon ==
    {"): error ", ":", ": ", ": error: ", ": warning: ", "error: "}

\* lexemes that contain an apostrophe
HasQuote ==
    {"'"}

\* lexemes that contain a double quote
HasDQuote ==
    {"\", line ", "File \"", "file \""}

\* lexemes that contain a back quote
HasBacktick ==
    {BQ}

\* lexemes that contain >
HasGt ==
    {">"}

\* lexemes that contain (
HasLParen ==
    {"("}

\* lexemes that contain error:
HasErrorColon ==
    {": error: ", "error: "}

\* lexemes that contain a character outside \w = [A-Za-z0-9_]
NonWord ==
    {NL, SP, "\", line ", "#include <", "'", "(", "): error ", ",", "--",
     ".", "/", ":", ": ", ": error: ", ": warning: ", ";", ">",
     "Cannot find module", "Cannot find name", "File \"",
     "Invalid Conversion", "Invalid URL", "Missing Semicolon",
     "No module named", "Use of", "]", BQ, "as mutable", "cannot find",
     "cannot find module", "cannot find name", "cannot import name",
     "completely random text", "could not compile", "error: ", "error[E",
     "error[e", "file \"", "has no attribute", "in this scope",
     "invalid conversion", "invalid syntax", "invalid url",
     "is not a member of", "is not defined", "mismatched types",
     "missing semicolon", "no module named", "unused variable", "use of",
     "was never closed", "was not declared"}

\* [^\s:]
NotSpaceColon(x) == x \notin HasSpace /\ x \notin HasColon

\* [^\s(]
NotSpaceParen(x) == x \notin HasSpace /\ x \notin HasLParen

\* [^>]
NotGt(x) == x \notin HasGt

\* [^']
NotQuote(x) == x \notin HasQuote

\* [^"]
NotDQuote(x) == x \notin HasDQuote

\* [^BQ]
NotBacktick(x) == x \notin HasBacktick

\* [^:]
NotColon(x) == x \notin HasColon

\* \w
IsWord(x) == x \notin NonWord

\* \d
IsDigit(x) == x \in Digits

\* . (any character but a line break)
NotNL(x) == x # NL

(***************************************************************************)
(* String operations.                                                      *)
(***************************************************************************)
\* the literal lit stands at position i of s
IsAt(s, i, lit) ==
    /\ i >= 1
    /\ i + Len(lit) - 1 <= Len(s)
    /\ \A k \in 1..Len(lit) : s[i + k - 1] = lit[k]

\* str::contains
Contains(s, lit) == \E i \in 1..(Len(s) - Len(lit) + 1) : IsAt(s, i, lit)

\* smallest member of a non-empty set of positions, 0 for the empty set
MinPos(S) == IF S = {} THEN 0 ELSE CHOOSE i \in S : \A j \in S : i <= j

\* the lexeme x is of the character class named c
InClass(c, x) ==
    CASE c = "NotSpaceColon" -> NotSpaceColon(x)
      [] c = "NotSpaceParen" -> NotSpaceParen(x)
      [] c = "NotGt" -> NotGt(x)
      [] c = "NotQuote" -> NotQuote(x)
      [] c = "NotDQuote" -> NotDQuote(x)
      [] c = "NotBacktick" -> NotBacktick(x)
      [] c = "NotColon" -> NotColon(x)
      [] c = "IsWord" -> IsWord(x)
      [] c = "IsDigit" -> IsDigit(x)
      [] c = "NotNL" -> NotNL(x)

\* last position of the greedy run of lexemes of class c that starts at i
\* (i - 1 when s[i] is not of the class)
RunEnd(s, i, c) ==
    IF i > Len(s) THEN i - 1
    ELSE CHOOSE j \in (i - 1)..Len(s) :
             /\ \A k \in i..j : InClass(c, s[k])
             /\ j = Len(s) \/ ~InClass(c, s[j + 1])

\* first position of the run of lexemes of class c that ends at j
\* (j + 1 when s[j] is not of the class)
RunStart(s, j, c) ==
    IF j < 1 THEN j + 1
    ELSE CHOOSE i \in 1..(j + 1) :
             /\ \A k \in i..j : InClass(c, s[k])
             /\ i = 1 \/ ~InClass(c, s[i - 1])

\* str::to_lowercase of one lexeme
LowerLex(x) ==
    CASE x = "AttributeError" -> "attributeerror"
      [] x = "Cannot find module" -> "cannot find module"
      [] x = "Cannot find name" -> "cannot find name"
      [] x = "ConnectionError" -> "connectionerror"
      [] x = "Expected" -> "expected"
      [] x = "Failed" -> "failed"
      [] x = "File \"" -> "file \""
      [] x = "ImportError" -> "importerror"
      [] x = "IndentationError" -> "indentationerror"
      [] x = "Invalid Conversion" -> "invalid conversion"
      [] x = "Invalid URL" -> "invalid url"
      [] x = "KeyError" -> "keyerror"
      [] x = "Missing Semicolon" -> "missing semicolon"
      [] x = "MissingSchema" -> "missingschema"
      [] x = "ModuleNotFoundError" -> "modulenotfounderror"
      [] x = "MyClass" -> "myclass"
      [] x = "NameError" -> "nameerror"
      [] x = "No module named" -> "no module named"
      [] x = "None" -> "none"
      [] x = "PYTHON" -> "python"
      [] x = "Python" -> "python"
      [] x = "ReferenceError" -> "referenceerror"
      [] x = "SyntaxError" -> "syntaxerror"
      [] x = "TS" -> "ts"
      [] x = "Timeout" -> "timeout"
      [] x = "Type" -> "type"
      [] x = "TypeError" -> "typeerror"
      [] x = "Undeclared" -> "undeclared"
      [] x = "Unterminated" -> "unterminated"
      [] x = "Use of" -> "use of"
      [] x = "VECTOR" -> "vector"
      [] x = "ValueError" -> "valueerror"
      [] x = "Vector" -> "vector"
      [] x = "error[E" -> "error[e"
      [] x = "myFunction" -> "myfunction"
      [] x = "myVar" -> "myvar"
      [] x = "unknownType" -> "unknowntype"
      [] OTHER -> x

to_lowercase(s) == [k \in 1..Len(s) |-> LowerLex(s[k])]

(***************************************************************************)
(* str::parse::<u32>() on a run of decimal digits.  The value is kept in   *)
(* two 16-bit halves, so that the 32-bit width is the real one: the parse  *)
(* fails exactly when the digits denote more than 2^32 - 1.                *)
(***************************************************************************)
Half == 65536

U32(hi, lo) == [hi |-> hi, lo |-> lo]

\* acc * 10 + d in 32 bits; None on overflow
U32Step(acc, d) ==
    LET lo == acc.lo * 10 + d
        hi == acc.hi * 10 + (lo \div Half)
    IN IF hi >= Half THEN None ELSE Some(U32(hi, lo % Half))

RECURSIVE ParseU32From(_, _, _)
ParseU32From(ds, k, acc) ==
    IF k > Len(ds) THEN Some(acc)
    ELSE LET nxt == U32Step(acc, DigitVal(ds[k]))
         IN IF IsNone(nxt) THEN None ELSE ParseU32From(ds, k + 1, Unwrap(nxt))

\* the digits read modulo 2^32, every digit string accepted
RECURSIVE WrapU32From(_, _, _)
WrapU32From(ds, k, acc) ==
    IF k > Len(ds) THEN Some(acc)
    ELSE LET lo == acc.lo * 10 + DigitVal(ds[k])
             hi == (acc.hi * 10 + (lo \div Half)) % Half
         IN WrapU32From(ds, k + 1, U32(hi, lo % Half))

ParseU32_Wrapping(ds) == IF Len(ds) = 0 THEN None ELSE WrapU32From(ds, 1, U32(0, 0))

ParseU32(ds) == IF Len(ds) = 0 THEN None ELSE ParseU32From(ds, 1, U32(0, 0))

(***************************************************************************)
(* ErrorType, Language and ParsedError.                                    *)
(***************************************************************************)
MissingInclude(h) == [tag |-> "MissingInclude", arg |-> h]

MissingSemicolon == [tag |-> "MissingSemicolon", arg |-> <<>>]

UndeclaredVariable(v) == [tag |-> "UndeclaredVariable", arg |-> v]

SyntaxError(d) == [tag |-> "SyntaxError", arg |-> d]

IndentationError == [tag |-> "IndentationError", arg |-> <<>>]

ImportError(m) == [tag |-> "ImportError", arg |-> m]

TypeError(d) == [tag |-> "TypeError", arg |-> d]

ModuleNotFound(m) == [tag |-> "ModuleNotFound", arg |-> m]

BorrowError(d) == [tag |-> "BorrowError", arg |-> d]

KeyError(d) == [tag |-> "KeyError", arg |-> d]

AttributeError(d) == [tag |-> "AttributeError", arg |-> d]

ValueError(d) == [tag |-> "ValueError", arg |-> d]

MissingEnvVar(d) == [tag |-> "MissingEnvVar", arg |-> d]

RequestsError(d) == [tag |-> "RequestsError", arg |-> d]

Unknown(m) == [tag |-> "Unknown", arg |-> m]

Language == {"Cpp", "Python", "JavaScript", "TypeScript", "Rust", "Unknown"}

ParsedError(f, l, c, m, t, lang) ==
    [file |-> f, line |-> l, column |-> c, message |-> m, error_type |-> t,
     language |-> lang]

(***************************************************************************)
(* C++ extractor.                                                          *)
(***************************************************************************)
CppExts == {"cpp", "cc", "cxx", "c", "h", "hpp"}

\* ([^\s:]+\.(cpp|cc|cxx|c|h|hpp)):(\d+):(\d+): error: (.+)
\* with the extension lexeme at position e.  The lexeme after the extension
\* is a colon, so the greedy [^\s:]+ run ends right before the dot, and the
\* match with the leftmost extension is the leftmost match.
CppMatchAtExt(s, e) ==
    LET l == RunEnd(s, e + 2, "IsDigit")
        c == RunEnd(s, l + 2, "IsDigit")
    IN /\ s[e] \in CppExts
       /\ e >= 3
       /\ s[e - 1] = "."
       /\ NotSpaceColon(s[e - 2])
       /\ IsAt(s, e + 1, <<":">>)
       /\ l >= e + 2
       /\ IsAt(s, l + 1, <<":">>)
       /\ c >= l + 2
       /\ IsAt(s, c + 1, <<": error: ">>)
       /\ c + 2 <= Len(s)
       /\ NotNL(s[c + 2])

CppCaptures(s) ==
    LET e == MinPos({k \in 1..Len(s) : CppMatchAtExt(s, k)})
    IN IF e = 0 THEN None
       ELSE LET l == RunEnd(s, e + 2, "IsDigit")
                c == RunEnd(s, l + 2, "IsDigit")
            IN Some([file |-> SubSeq(s, RunStart(s, e - 2, "NotSpaceColon"), e),
                     line |-> SubSeq(s, e + 2, l),
                     col |-> SubSeq(s, l + 2, c),
                     message |-> SubSeq(s, c + 2, RunEnd(s, c + 2, "NotNL"))])

\* #include <([^>]+)>
IncludeMatchAt(s, i) ==
    LET j == RunEnd(s, i + 1, "NotGt")
    IN /\ s[i] = "#include <"
       /\ j >= i + 1
       /\ IsAt(s, j + 1, <<">">>)

IncludeCapture(s) ==
    LET i == MinPos({k \in 1..Len(s) : IncludeMatchAt(s, k)})
    IN IF i = 0 THEN None ELSE Some(SubSeq(s, i + 1, RunEnd(s, i + 1, "NotGt")))

\* '([^']+)' was not declared
UndeclAlt1At(s, i) ==
    LET j == RunEnd(s, i + 1, "NotQuote")
    IN /\ s[i] = "'"
       /\ j >= i + 1
       /\ IsAt(s, j + 1, <<"'", SP, "was not declared">>)

\* use of undeclared identifier '([^']+)'
UndeclAlt2At(s, i) ==
    LET q == i + 7
        j == RunEnd(s, q, "NotQuote")
    IN /\ IsAt(s, i, <<"use of", SP, "undeclared", SP, "identifier", SP, "'">>)
       /\ j >= q
       /\ IsAt(s, j + 1, <<"'">>)

\* '([^']+)' was not declared|use of undeclared identifier '([^']+)'
\* cap.get(1).or(cap.get(2))
UndeclCapture(s) ==
    LET i == MinPos({k \in 1..Len(s) : UndeclAlt1At(s, k) \/ UndeclAlt2At(s, k)})
    IN IF i = 0 THEN None
       ELSE IF UndeclAlt1At(s, i)
            THEN Some(SubSeq(s, i + 1, RunEnd(s, i + 1, "NotQuote")))
            ELSE Some(SubSeq(s, i + 7, RunEnd(s, i + 7, "NotQuote")))

\* the missing-include branch with string looked for before vector and the
\* directive looked for last
CppIncludeBranch_Reordered(msg, full) ==
    IF Contains(msg, <<"is not a member of", SP, "'", "std", "'">>)
         \/ Contains(msg, <<"was not declared">>)
    THEN IF Contains(msg, <<"set">>) THEN Some(MissingInclude(<<"set">>))
         ELSE IF Contains(msg, <<"map">>) THEN Some(MissingInclude(<<"map">>))
         ELSE IF Contains(msg, <<"cout">>) \/ Contains(msg, <<"cin">>)
              THEN Some(MissingInclude(<<"iostream">>))
         ELSE IF Contains(msg, <<"string">>) THEN Some(MissingInclude(<<"string">>))
         ELSE IF Contains(msg, <<"vector">>) THEN Some(MissingInclude(<<"vector">>))
         ELSE IF IsSome(IncludeCapture(full))
         THEN Some(MissingInclude(Unwrap(IncludeCapture(full))))
         ELSE None
    ELSE None

\* the missing-include rule without the test for its two phrases
CppIncludeBranch_Ungated(msg, full) ==
    IF IsSome(IncludeCapture(full))
    THEN Some(MissingInclude(Unwrap(IncludeCapture(full))))
    ELSE IF Contains(msg, <<"vector">>) THEN Some(MissingInclude(<<"vector">>))
    ELSE IF Contains(msg, <<"string">>) THEN Some(MissingInclude(<<"string">>))
    ELSE IF Contains(msg, <<"cout">>) \/ Contains(msg, <<"cin">>)
         THEN Some(MissingInclude(<<"iostream">>))
    ELSE IF Contains(msg, <<"map">>) THEN Some(MissingInclude(<<"map">>))
    ELSE IF Contains(msg, <<"set">>) THEN Some(MissingInclude(<<"set">>))
    ELSE None

\* the missing-include branch of detect_cpp_error_type; None when the code
\* falls through to the checks after it
CppIncludeBranch(msg, full) ==
    IF Contains(msg, <<"is not a member of", SP, "'", "std", "'">>)
         \/ Contains(msg, <<"was not declared">>)
    THEN IF IsSome(IncludeCapture(full))
         THEN Some(MissingInclude(Unwrap(IncludeCapture(full))))
         ELSE IF Contains(msg, <<"vector">>) THEN Some(MissingInclude(<<"vector">>))
         ELSE IF Contains(msg, <<"string">>) THEN Some(MissingInclude(<<"string">>))
         ELSE IF Contains(msg, <<"cout">>) \/ Contains(msg, <<"cin">>)
              THEN Some(MissingInclude(<<"iostream">>))
         ELSE IF Contains(msg, <<"map">>) THEN Some(MissingInclude(<<"map">>))
         ELSE IF Contains(msg, <<"set">>) THEN Some(MissingInclude(<<"set">>))
         ELSE None
    ELSE None

\* detect_cpp_error_type with the undeclared-variable patterns tried before
\* the semicolon check
detect_cpp_error_type_UndeclFirst(message, full) ==
    LET msg == to_lowercase(message)
    IN IF IsSome(CppIncludeBranch(msg, full)) THEN Unwrap(CppIncludeBranch(msg, full))
       ELSE IF IsSome(UndeclCapture(msg))
            THEN UndeclaredVariable(Unwrap(UndeclCapture(msg)))
       ELSE IF Contains(msg, <<"expected", SP, "'", ";", "'">>)
            THEN MissingSemicolon
       ELSE Unknown(message)

\* detect_cpp_error_type that matches the patterns on the message as written
\* and reports the lower-cased message as unknown
detect_cpp_error_type_CaseKept(message, full) ==
    LET msg == to_lowercase(message)
    IN IF IsSome(CppIncludeBranch(msg, full)) THEN Unwrap(CppIncludeBranch(msg, full))
       ELSE IF Contains(msg, <<"expected", SP, "'", ";", "'">>)
            THEN MissingSemicolon
       ELSE IF IsSome(UndeclCapture(message))
            THEN UndeclaredVariable(Unwrap(UndeclCapture(message)))
       ELSE Unknown(msg)

detect_cpp_error_type(message, full) ==
    LET msg == to_lowercase(message)
    IN IF IsSome(CppIncludeBranch(msg, full)) THEN Unwrap(CppIncludeBranch(msg, full))
       ELSE IF Contains(msg, <<"expected", SP, "'", ";", "'">>)
                 \/ Contains(msg, <<"expected", SP, "'", ";", "'", SP, "before">>)
            THEN MissingSemicolon
       ELSE IF IsSome(UndeclCapture(msg))
            THEN UndeclaredVariable(Unwrap(UndeclCapture(msg)))
       ELSE Unknown(message)

\* parse_cpp_error with the line and the column exchanged
parse_cpp_error_Swapped(in) ==
    IF IsSome(CppCaptures(in))
    THEN LET cap == Unwrap(CppCaptures(in))
             line == ParseU32(cap.line)
             col == ParseU32(cap.col)
         IN IF IsNone(line) \/ IsNone(col) THEN None
            ELSE Some(ParsedError(cap.file, col, line, cap.message,
                                  detect_cpp_error_type(cap.message, in), "Cpp"))
    ELSE None

parse_cpp_error(in) ==
    IF IsSome(CppCaptures(in))
    THEN LET cap == Unwrap(CppCaptures(in))
             line == ParseU32(cap.line)
             col == ParseU32(cap.col)
         IN IF IsNone(line) \/ IsNone(col) THEN None
            ELSE Some(ParsedError(cap.file, line, col, cap.message,
                                  detect_cpp_error_type(cap.message, in), "Cpp"))
    ELSE None

(***************************************************************************)
(* Python extractor.                                                       *)
(***************************************************************************)
PyErrorNames ==
    {"SyntaxError", "IndentationError", "NameError", "ImportError", "TypeError",
     "ModuleNotFoundError", "KeyError", "AttributeError", "ValueError"}

RequestsPrefix == <<"requests", ".", "exceptions", ".">>

\* File "([^"]+\.py)", line (\d+)
PyFileMatchAt(s, i) ==
    LET j == RunEnd(s, i + 1, "NotDQuote")
        l == RunEnd(s, j + 2, "IsDigit")
    IN /\ s[i] = "File \""
       /\ j >= i + 3
       /\ s[j - 1] = "."
       /\ s[j] = "py"
       /\ IsAt(s, j + 1, <<"\", line ">>)
       /\ l >= j + 2

PyFileCaptures(s) ==
    LET i == MinPos({k \in 1..Len(s) : PyFileMatchAt(s, k)})
    IN IF i = 0 THEN None
       ELSE LET j == RunEnd(s, i + 1, "NotDQuote")
            IN Some([file |-> SubSeq(s, i + 1, j),
                     line |-> SubSeq(s, j + 2, RunEnd(s, j + 2, "IsDigit"))])

\* requests\.exceptions\.(\w+): (.+)
RequestsMatchAt(s, i) ==
    LET w == RunEnd(s, i + 4, "IsWord")
    IN /\ IsAt(s, i, RequestsPrefix)
       /\ w >= i + 4
       /\ IsAt(s, w + 1, <<": ">>)
       /\ w + 2 <= Len(s)
       /\ NotNL(s[w + 2])

RequestsCaptures(s) ==
    LET i == MinPos({k \in 1..Len(s) : RequestsMatchAt(s, k)})
    IN IF i = 0 THEN None
       ELSE LET w == RunEnd(s, i + 4, "IsWord")
            IN Some([name |-> SubSeq(s, i + 4, w),
                     details |-> SubSeq(s, w + 2, RunEnd(s, w + 2, "NotNL"))])

\* (SyntaxError|...|ValueError): (.+), the alternatives that are one name
PyNameMatchAt(s, i) ==
    /\ s[i] \in PyErrorNames
    /\ IsAt(s, i + 1, <<": ">>)
    /\ i + 2 <= Len(s)
    /\ NotNL(s[i + 2])

\* (SyntaxError|...|ValueError|requests\.exceptions\.\w+): (.+)
PyErrorCaptures(s) ==
    LET i == MinPos({k \in 1..Len(s) : PyNameMatchAt(s, k) \/ RequestsMatchAt(s, k)})
    IN IF i = 0 THEN None
       ELSE IF PyNameMatchAt(s, i)
            THEN Some([name |-> <<s[i]>>,
                       details |-> SubSeq(s, i + 2, RunEnd(s, i + 2, "NotNL"))])
            ELSE LET w == RunEnd(s, i + 4, "IsWord")
                 IN Some([name |-> SubSeq(s, i, w),
                          details |-> SubSeq(s, w + 2, RunEnd(s, w + 2, "NotNL"))])

\* the first capture group of  <prefix>'([^']+)'<suffix>
QuotedAfterAt(s, i, prefix, suffix) ==
    LET q == i + Len(prefix)
        j == RunEnd(s, q + 1, "NotQuote")
    IN /\ IsAt(s, i, prefix \o <<"'">>)
       /\ j >= q + 1
       /\ IsAt(s, j + 1, <<"'">> \o suffix)

QuotedAfter(s, prefix, suffix) ==
    LET i == MinPos({k \in 1..Len(s) : QuotedAfterAt(s, k, prefix, suffix)})
    IN IF i = 0 THEN None
       ELSE Some(SubSeq(s, i + Len(prefix) + 1,
                        RunEnd(s, i + Len(prefix) + 1, "NotQuote")))

\* the match on the exception name without the pattern of the NameError
\* detail and with KeyError and ValueError exchanged
PyErrorType_Shuffled(error_name, details) ==
    IF error_name = <<"SyntaxError">> THEN SyntaxError(details)
    ELSE IF error_name = <<"IndentationError">> THEN IndentationError
    ELSE IF error_name = <<"NameError">> THEN Unknown(details)
    ELSE IF error_name = <<"ImportError">> \/ error_name = <<"ModuleNotFoundError">>
         THEN ImportError(details)
    ELSE IF error_name = <<"TypeError">> THEN TypeError(details)
    ELSE IF error_name = <<"KeyError">> THEN ValueError(details)
    ELSE IF error_name = <<"AttributeError">> THEN AttributeError(details)
    ELSE IF error_name = <<"ValueError">> THEN KeyError(details)
    ELSE Unknown(details)

\* the match on the exception name of the generic branch
PyErrorType(error_name, details) ==
    IF error_name = <<"SyntaxError">> THEN SyntaxError(details)
    ELSE IF error_name = <<"IndentationError">> THEN IndentationError
    ELSE IF error_name = <<"NameError">>
         THEN \* name '([^']+)' is not defined
              LET cap == QuotedAfter(details, <<"name", SP>>, <<SP, "is not defined">>)
              IN IF IsSome(cap) THEN UndeclaredVariable(Unwrap(cap))
                 ELSE Unknown(details)
    ELSE IF error_name = <<"ImportError">> \/ error_name = <<"ModuleNotFoundError">>
         THEN \* No module named '([^']+)'
              LET cap == QuotedAfter(details, <<"No module named", SP>>, <<>>)
              IN IF IsSome(cap) THEN ImportError(Unwrap(cap))
                 ELSE ImportError(details)
    ELSE IF error_name = <<"TypeError">> THEN TypeError(details)
    ELSE IF error_name = <<"KeyError">> THEN KeyError(details)
    ELSE IF error_name = <<"AttributeError">> THEN AttributeError(details)
    ELSE IF error_name = <<"ValueError">> THEN ValueError(details)
    ELSE Unknown(details)

\* the requests.exceptions branch, taken whenever requests_re matches
PyRequestsBranch(req_cap, file_cap) ==
    LET error_name == req_cap.name
        details == req_cap.details
        error_type ==
            IF error_name = <<"MissingSchema">> \/ Contains(details, <<"None">>)
            THEN MissingEnvVar(details)
            ELSE RequestsError(error_name \o <<": ">> \o details)
        file == IF IsSome(file_cap) THEN Unwrap(file_cap).file
                ELSE <<"unknown", ".", "py">>
        line == IF IsSome(file_cap) THEN ParseU32(Unwrap(file_cap).line)
                ELSE None
    IN ParsedError(file, line, None,
                   RequestsPrefix \o error_name \o <<": ">> \o details,
                   error_type, "Python")

\* parse_python_error with the generic branch tried before the
\* requests.exceptions branch
parse_python_error_GenericFirst(in) ==
    LET file_cap == PyFileCaptures(in)
        error_cap == PyErrorCaptures(in)
        req_cap == RequestsCaptures(in)
    IN IF IsSome(file_cap) /\ IsSome(error_cap)
            /\ IsSome(ParseU32(Unwrap(file_cap).line))
       THEN Some(ParsedError(Unwrap(file_cap).file, ParseU32(Unwrap(file_cap).line),
                             None,
                             Unwrap(error_cap).name \o <<": ">> \o Unwrap(error_cap).details,
                             PyErrorType(Unwrap(error_cap).name, Unwrap(error_cap).details),
                             "Python"))
       ELSE IF IsSome(req_cap) THEN Some(PyRequestsBranch(Unwrap(req_cap), file_cap))
       ELSE None

\* parse_python_error whose generic branch does not need the File marker
parse_python_error_NoMarker(in) ==
    LET file_cap == PyFileCaptures(in)
        error_cap == PyErrorCaptures(in)
        req_cap == RequestsCaptures(in)
    IN IF IsSome(req_cap) THEN Some(PyRequestsBranch(Unwrap(req_cap), file_cap))
       ELSE IF IsSome(error_cap)
            THEN Some(ParsedError(IF IsSome(file_cap) THEN Unwrap(file_cap).file
                                  ELSE <<"unknown", ".", "py">>,
                                  IF IsSome(file_cap) THEN ParseU32(Unwrap(file_cap).line)
                                  ELSE None,
                                  None,
                                  Unwrap(error_cap).name \o <<": ">> \o Unwrap(error_cap).details,
                                  PyErrorType(Unwrap(error_cap).name, Unwrap(error_cap).details),
                                  "Python"))
       ELSE None

parse_python_error(in) ==
    LET file_cap == PyFileCaptures(in)
        error_cap == PyErrorCaptures(in)
        req_cap == RequestsCaptures(in)
    IN IF IsSome(req_cap) THEN Some(PyRequestsBranch(Unwrap(req_cap), file_cap))
       ELSE IF IsSome(file_cap) /\ IsSome(error_cap)
            THEN LET fc == Unwrap(file_cap)
                     ec == Unwrap(error_cap)
                     line == ParseU32(fc.line)
                 IN IF IsNone(line) THEN None
                    ELSE Some(ParsedError(fc.file, line, None,
                                          ec.name \o <<": ">> \o ec.details,
                                          PyErrorType(ec.name, ec.details),
                                          "Python"))
       ELSE None

(***************************************************************************)
(* JavaScript / TypeScript extractor.                                      *)
(***************************************************************************)
JsExts == {"js", "ts", "jsx", "tsx", "mjs"}

TsExts == {"ts", "tsx"}

JsErrorNames == {"SyntaxError", "TypeError", "ReferenceError"}

\* ([^\s(]+\.(ts|tsx))\((\d+),(\d+)\): error (TS\d+): (.+)
\* with the extension lexeme at position e
TscMatchAtExt(s, e) ==
    LET l == RunEnd(s, e + 2, "IsDigit")
        c == RunEnd(s, l + 2, "IsDigit")
        d == RunEnd(s, c + 3, "IsDigit")
    IN /\ s[e] \in TsExts
       /\ e >= 3
       /\ s[e - 1] = "."
       /\ NotSpaceParen(s[e - 2])
       /\ IsAt(s, e + 1, <<"(">>)
       /\ l >= e + 2
       /\ IsAt(s, l + 1, <<",">>)
       /\ c >= l + 2
       /\ IsAt(s, c + 1, <<"): error ", "TS">>)
       /\ d >= c + 3
       /\ IsAt(s, d + 1, <<": ">>)
       /\ d + 2 <= Len(s)
       /\ NotNL(s[d + 2])

TscCaptures(s) ==
    LET e == MinPos({k \in 1..Len(s) : TscMatchAtExt(s, k)})
    IN IF e = 0 THEN None
       ELSE LET l == RunEnd(s, e + 2, "IsDigit")
                c == RunEnd(s, l + 2, "IsDigit")
                d == RunEnd(s, c + 3, "IsDigit")
            IN Some([file |-> SubSeq(s, RunStart(s, e - 2, "NotSpaceParen"), e),
                     line |-> SubSeq(s, e + 2, l),
                     col |-> SubSeq(s, l + 2, c),
                     code |-> SubSeq(s, c + 2, d),
                     message |-> SubSeq(s, d + 2, RunEnd(s, d + 2, "NotNL"))])

\* ([^\s:]+\.(js|ts|jsx|tsx|mjs)):(\d+)(?::(\d+))?
\* with the extension lexeme at position e
JsFileMatchAtExt(s, e) ==
    /\ s[e] \in JsExts
    /\ e >= 3
    /\ s[e - 1] = "."
    /\ NotSpaceColon(s[e - 2])
    /\ IsAt(s, e + 1, <<":">>)
    /\ RunEnd(s, e + 2, "IsDigit") >= e + 2

JsFileCaptures(s) ==
    LET e == MinPos({k \in 1..Len(s) : JsFileMatchAtExt(s, k)})
    IN IF e = 0 THEN None
       ELSE LET l == RunEnd(s, e + 2, "IsDigit")
                c == RunEnd(s, l + 2, "IsDigit")
            IN Some([file |-> SubSeq(s, RunStart(s, e - 2, "NotSpaceColon"), e),
                     ext |-> s[e],
                     line |-> SubSeq(s, e + 2, l),
                     col |-> IF IsAt(s, l + 1, <<":">>) /\ c >= l + 2
                             THEN Some(SubSeq(s, l + 2, c))
                             ELSE None])

\* (SyntaxError|TypeError|ReferenceError): (.+)
JsErrorMatchAt(s, i) ==
    /\ s[i] \in JsErrorNames
    /\ IsAt(s, i + 1, <<": ">>)
    /\ i + 2 <= Len(s)
    /\ NotNL(s[i + 2])

JsErrorCaptures(s) ==
    LET i == MinPos({k \in 1..Len(s) : JsErrorMatchAt(s, k)})
    IN IF i = 0 THEN None
       ELSE Some([name |-> <<s[i]>>,
                  details |-> SubSeq(s, i + 2, RunEnd(s, i + 2, "NotNL"))])

\* (\w+) is not defined, with the space after the word at position p
NotDefinedMatchAt(s, p) ==
    /\ p >= 2
    /\ IsWord(s[p - 1])
    /\ IsAt(s, p, <<SP, "is not defined">>)

NotDefinedCapture(s) ==
    LET p == MinPos({k \in 1..Len(s) : NotDefinedMatchAt(s, k)})
    IN IF p = 0 THEN None
       ELSE Some(SubSeq(s, RunStart(s, p - 1, "IsWord"), p - 1))

\* the match on the tsc error code
TscErrorType(code, message) ==
    IF code = <<"TS", "2", "3", "0", "4">> \/ code = <<"TS", "2", "5", "5", "2">>
    THEN \* Cannot find name '([^']+)'
         LET c == QuotedAfter(message, <<"Cannot find name", SP>>, <<>>)
         IN IF IsSome(c) THEN UndeclaredVariable(Unwrap(c)) ELSE Unknown(message)
    ELSE IF code = <<"TS", "2", "3", "0", "7">> THEN ModuleNotFound(message)
    ELSE Unknown(message)

\* the match on the error name without the pattern of the ReferenceError
\* detail
JsErrorType_NoPattern(error_name, details) ==
    IF error_name = <<"SyntaxError">> THEN SyntaxError(details)
    ELSE IF error_name = <<"TypeError">> THEN TypeError(details)
    ELSE Unknown(details)

\* the match on the error name of the generic rule
JsErrorType(error_name, details) ==
    IF error_name = <<"SyntaxError">> THEN SyntaxError(details)
    ELSE IF error_name = <<"ReferenceError">>
         THEN LET cap == NotDefinedCapture(details)
              IN IF IsSome(cap) THEN UndeclaredVariable(Unwrap(cap))
                 ELSE Unknown(details)
    ELSE IF error_name = <<"TypeError">> THEN TypeError(details)
    ELSE Unknown(details)

\* the tsc rule with its diagnostics labelled JavaScript
JsTscBranch_AsJavaScript(cap) ==
    LET line == ParseU32(cap.line)
        col == ParseU32(cap.col)
    IN IF IsNone(line) \/ IsNone(col) THEN None
       ELSE Some(ParsedError(cap.file, line, col,
                             cap.code \o <<": ">> \o cap.message,
                             TscErrorType(cap.code, cap.message), "JavaScript"))

\* the tsc branch
JsTscBranch(cap) ==
    LET line == ParseU32(cap.line)
        col == ParseU32(cap.col)
    IN IF IsNone(line) \/ IsNone(col) THEN None
       ELSE Some(ParsedError(cap.file, line, col,
                             cap.code \o <<": ">> \o cap.message,
                             TscErrorType(cap.code, cap.message), "TypeScript"))

\* the generic rule that needs the column of the file token
JsGenericBranch_ColumnNeeded(file_cap, error_cap) ==
    LET line == ParseU32(file_cap.line)
        col == IF IsSome(file_cap.col) THEN ParseU32(Unwrap(file_cap.col)) ELSE None
        language == IF file_cap.ext = "ts" \/ file_cap.ext = "tsx"
                    THEN "TypeScript" ELSE "JavaScript"
    IN IF IsNone(line) \/ IsNone(col) THEN None
       ELSE Some(ParsedError(file_cap.file, line, col,
                             error_cap.name \o <<": ">> \o error_cap.details,
                             JsErrorType(error_cap.name, error_cap.details),
                             language))

\* the generic rule
JsGenericBranch(file_cap, error_cap) ==
    LET line == ParseU32(file_cap.line)
        col == IF IsSome(file_cap.col) THEN ParseU32(Unwrap(file_cap.col)) ELSE None
        language == IF file_cap.ext = "ts" \/ file_cap.ext = "tsx"
                    THEN "TypeScript" ELSE "JavaScript"
    IN IF IsNone(line) THEN None
       ELSE Some(ParsedError(file_cap.file, line, col,
                             error_cap.name \o <<": ">> \o error_cap.details,
                             JsErrorType(error_cap.name, error_cap.details),
                             language))

\* parse_js_error with the generic rule tried before the tsc branch
parse_js_error_GenericFirst(in) ==
    IF IsSome(JsFileCaptures(in)) /\ IsSome(JsErrorCaptures(in))
    THEN JsGenericBranch(Unwrap(JsFileCaptures(in)), Unwrap(JsErrorCaptures(in)))
    ELSE IF IsSome(TscCaptures(in)) THEN JsTscBranch(Unwrap(TscCaptures(in)))
    ELSE None

parse_js_error(in) ==
    IF IsSome(TscCaptures(in)) THEN JsTscBranch(Unwrap(TscCaptures(in)))
    ELSE IF IsSome(JsFileCaptures(in)) /\ IsSome(JsErrorCaptures(in))
         THEN JsGenericBranch(Unwrap(JsFileCaptures(in)), Unwrap(JsErrorCaptures(in)))
    ELSE None

(***************************************************************************)
(* Rust extractor.                                                         *)
(***************************************************************************)
\* error\[E\d+\]: (.+)
RustErrorMatchAt(s, i) ==
    LET d == RunEnd(s, i + 1, "IsDigit")
    IN /\ s[i] = "error[E"
       /\ d >= i + 1
       /\ IsAt(s, d + 1, <<"]", ": ">>)
       /\ d + 3 <= Len(s)
       /\ NotNL(s[d + 3])

RustErrorCapture(s) ==
    LET i == MinPos({k \in 1..Len(s) : RustErrorMatchAt(s, k)})
    IN IF i = 0 THEN None
       ELSE LET d == RunEnd(s, i + 1, "IsDigit")
            IN Some(SubSeq(s, d + 3, RunEnd(s, d + 3, "NotNL")))

\* --> ([^:]+):(\d+):(\d+)
RustLocMatchAt(s, i) ==
    LET f == RunEnd(s, i + 3, "NotColon")
        l == RunEnd(s, f + 2, "IsDigit")
        c == RunEnd(s, l + 2, "IsDigit")
    IN /\ IsAt(s, i, <<"--", ">", SP>>)
       /\ f >= i + 3
       /\ IsAt(s, f + 1, <<":">>)
       /\ l >= f + 2
       /\ IsAt(s, l + 1, <<":">>)
       /\ c >= l + 2

RustLocCaptures(s) ==
    LET i == MinPos({k \in 1..Len(s) : RustLocMatchAt(s, k)})
    IN IF i = 0 THEN None
       ELSE LET f == RunEnd(s, i + 3, "NotColon")
                l == RunEnd(s, f + 2, "IsDigit")
            IN Some([file |-> SubSeq(s, i + 3, f),
                     line |-> SubSeq(s, f + 2, l),
                     col |-> SubSeq(s, l + 2, RunEnd(s, l + 2, "IsDigit"))])

\* cannot find (?:value|type) BQ([^BQ]+)BQ
CannotFindMatchAt(s, i) ==
    LET j == RunEnd(s, i + 5, "NotBacktick")
    IN /\ \/ IsAt(s, i, <<"cannot find", SP, "value", SP, BQ>>)
          \/ IsAt(s, i, <<"cannot find", SP, "type", SP, BQ>>)
       /\ j >= i + 5
       /\ IsAt(s, j + 1, <<BQ>>)

CannotFindCapture(s) ==
    LET i == MinPos({k \in 1..Len(s) : CannotFindMatchAt(s, k)})
    IN IF i = 0 THEN None
       ELSE Some(SubSeq(s, i + 5, RunEnd(s, i + 5, "NotBacktick")))

RustErrorType(message) ==
    IF Contains(message, <<"cannot find">>)
    THEN IF IsSome(CannotFindCapture(message))
         THEN UndeclaredVariable(Unwrap(CannotFindCapture(message)))
         ELSE Unknown(message)
    ELSE IF Contains(message, <<"borrow">>) THEN BorrowError(message)
    ELSE Unknown(message)

\* parse_rust_error that accepts an error header without a location
parse_rust_error_HeaderOnly(in) ==
    IF IsSome(RustErrorCapture(in))
    THEN LET message == Unwrap(RustErrorCapture(in))
         IN Some(ParsedError(<<>>, None, None, message,
                             RustErrorType(message), "Rust"))
    ELSE None

\* parse_rust_error that takes the message as the file and the file as the
\* message
parse_rust_error_Swapped(in) ==
    IF IsSome(RustErrorCapture(in)) /\ IsSome(RustLocCaptures(in))
    THEN LET message == Unwrap(RustErrorCapture(in))
             lc == Unwrap(RustLocCaptures(in))
             line == ParseU32(lc.line)
             col == ParseU32(lc.col)
         IN IF IsNone(line) \/ IsNone(col) THEN None
            ELSE Some(ParsedError(message, line, col, lc.file,
                                  RustErrorType(message), "Rust"))
    ELSE None

parse_rust_error(in) ==
    IF IsSome(RustErrorCapture(in)) /\ IsSome(RustLocCaptures(in))
    THEN LET message == Unwrap(RustErrorCapture(in))
             lc == Unwrap(RustLocCaptures(in))
             line == ParseU32(lc.line)
             col == ParseU32(lc.col)
         IN IF IsNone(line) \/ IsNone(col) THEN None
            ELSE Some(ParsedError(lc.file, line, col, message,
                                  RustErrorType(message), "Rust"))
    ELSE None

(***************************************************************************)
(* ui.rs: what analyze_error prints is the sequence of the calls it makes  *)
(* to the printing functions, each with the texts it is given.  The bullet *)
(* character of the instructions is written <bullet>.                      *)
(***************************************************************************)
print_section(title) == [fn |-> "print_section", args |-> <<title>>]

print_error(msg) == [fn |-> "print_error", args |-> <<msg>>]

\* the warning with its text in lower case
print_warning_Lowered(msg) == [fn |-> "print_warning", args |-> <<to_lowercase(msg)>>]

print_warning(msg) == [fn |-> "print_warning", args |-> <<msg>>]

print_info(msg) == [fn |-> "print_info", args |-> <<msg>>]

print_hint(msg) == [fn |-> "print_hint", args |-> <<msg>>]

\* the location is file:line:col, file:line or file, by what is present
print_file_location(file, line, col) ==
    [fn |-> "print_file_location",
     args |-> IF IsSome(line) /\ IsSome(col) THEN <<file, line, col>>
              ELSE IF IsSome(line) THEN <<file, line>>
              ELSE <<file>>]

print_diff(before, after) == [fn |-> "print_diff", args |-> <<before, after>>]

print_fix_instruction(instruction) ==
    [fn |-> "print_fix_instruction", args |-> <<instruction>>]

\* println!(text); println!() prints the empty text
println(text) == [fn |-> "println", args |-> <<text>>]

\* impl Display for Language
LanguageDisplay(lang) == IF lang = "Cpp" THEN <<"C++">> ELSE <<lang>>

(***************************************************************************)
(* fixer.rs: the remediation of a diagnostic.                              *)
(***************************************************************************)
show_parsed_error(error) ==
    << println(<<>>),
       print_info(<<"Language: ">> \o LanguageDisplay(error.language)),
       print_file_location(error.file, error.line, error.column),
       println(<<>>),
       print_error(error.message) >>

\* the include fix in every language
fix_missing_include_Ungated(header, lang) ==
    << print_diff(<<"// Your current code">>, <<"#include <">> \o header \o <<">\n// Your code">>),
       print_fix_instruction(<<"Add this line at the top of your file:\n\n  #include <">> \o header \o <<">">>) >>

fix_missing_include(header, lang) ==
    IF lang = "Cpp"
    THEN << print_diff(<<"// Your current code">>, <<"#include <">> \o header \o <<">\n// Your code">>),
            print_fix_instruction(<<"Add this line at the top of your file:\n\n  #include <">> \o header \o <<">">>) >>
    ELSE <<>>

fix_missing_semicolon(lang) ==
    IF lang \in {"Cpp", "JavaScript", "TypeScript"}
    THEN << print_diff(<<"statement  // missing semicolon">>, <<"statement;">>),
            print_fix_instruction(<<"Add a semicolon at the end of the line indicated in the error.\n\nLook for the line number in the error message and add ';' at the end.">>) >>
    ELSE <<>>

\* the list of standard types compared with the name as written
is_std_type_CaseKept(name) ==
    name \in
        {<<"vector">>, <<"string">>, <<"map">>, <<"set">>, <<"list">>, <<"deque">>,
         <<"array">>, <<"unique_ptr">>, <<"shared_ptr">>, <<"optional">>, <<"variant">>}

is_std_type(name) ==
    to_lowercase(name) \in
        {<<"vector">>, <<"string">>, <<"map">>, <<"set">>, <<"list">>, <<"deque">>, <<"array">>, <<"unique_ptr">>, <<"shared_ptr">>, <<"optional">>, <<"variant">>}

fix_undeclared_variable(var, lang) ==
    << print_section(<<"Possible Causes">>), println(<<>>),
       print_info(<<"Variable '">> \o var \o <<"' is not defined">>), println(<<>>) >>
    \o CASE lang = "Cpp" ->
              << println(<<"  1. Typo in variable name">>), println(<<"  2. Variable declared in different scope">>), println(<<"  3. Missing #include for std:: types">>), println(<<>>) >>
              \o IF is_std_type(var)
                 THEN << print_diff(<<"std::">> \o var, <<"#include <">> \o to_lowercase(var) \o <<">\nstd::">> \o var) >>
                 ELSE << print_fix_instruction(<<"Options:\n\n1. Check spelling of '">> \o var \o <<"'\n2. Declare the variable before using it:\n   int ">> \o var \o <<" = 0;\n3. Check if it's defined in a different scope">>) >>
         [] lang = "Python" -> << print_fix_instruction(<<"Options:\n\n1. Check spelling of '">> \o var \o <<"'\n2. Define the variable before using it:\n   ">> \o var \o <<" = None\n3. Make sure the variable is in scope">>) >>
         [] lang \in {"JavaScript", "TypeScript"} ->
              << print_fix_instruction(<<"Options:\n\n1. Check spelling of '">> \o var \o <<"'\n2. Declare the variable:\n   const ">> \o var \o <<" = ...;\n3. Import if it's from another module:\n   import { ">> \o var \o <<" } from './module';">>) >>
         [] lang = "Rust" -> << print_fix_instruction(<<"Options:\n\n1. Check spelling of '">> \o var \o <<"'\n2. Add a 'use' statement if it's from another module:\n   use crate::">> \o var \o <<";\n3. Declare the variable:\n   let ">> \o var \o <<" = ...;">>) >>
         [] OTHER -> <<>>

\* the rules of the SyntaxError remediation with the expected rule first
fix_syntax_error_ExpectedFirst(details, lang) ==
    LET details_lower == to_lowercase(details)
    IN << print_section(<<"Syntax Error">>), println(<<>>) >>
       \o IF Contains(details_lower, <<"expected">>)
          THEN << print_fix_instruction(<<"The parser expected something that wasn't there.\n\nError: ">> \o details \o <<"\n\nCheck the line number in the error for missing syntax.">>) >>
          ELSE IF Contains(details_lower, <<"un", "expected", SP, "token">>)
          THEN << print_fix_instruction(<<"Check for:\n\n1. Missing or extra brackets: { } [ ] ( )\n2. Missing commas in arrays or objects\n3. Unclosed strings\n4. Missing operators">>) >>
          ELSE IF Contains(details_lower, <<"was never closed">>)
                    \/ Contains(details_lower, <<"unterminated">>)
          THEN << print_fix_instruction(<<"You have an unclosed bracket or string.\n\nCheck for matching pairs:\n<bullet> ( must have )\n<bullet> { must have }\n<bullet> [ must have ]\n<bullet> \" must have \"\n<bullet> ' must have '">>) >>
          ELSE << print_fix_instruction(<<"Syntax error: ">> \o details \o <<"\n\nCheck the line indicated in the error for typos or missing syntax.">>) >>

fix_syntax_error(details, lang) ==
    LET details_lower == to_lowercase(details)
    IN << print_section(<<"Syntax Error">>), println(<<>>) >>
       \o IF Contains(details_lower, <<"un", "expected", SP, "token">>)
          THEN << print_fix_instruction(<<"Check for:\n\n1. Missing or extra brackets: { } [ ] ( )\n2. Missing commas in arrays or objects\n3. Unclosed strings\n4. Missing operators">>) >>
          ELSE IF Contains(details_lower, <<"was never closed">>) \/ Contains(details_lower, <<"unterminated">>)
          THEN << print_fix_instruction(<<"You have an unclosed bracket or string.\n\nCheck for matching pairs:\n<bullet> ( must have )\n<bullet> { must have }\n<bullet> [ must have ]\n<bullet> \" must have \"\n<bullet> ' must have '">>) >>
          ELSE IF Contains(details_lower, <<"expected">>)
          THEN << print_fix_instruction(<<"The parser expected something that wasn't there.\n\nError: ">> \o details \o <<"\n\nCheck the line number in the error for missing syntax.">>) >>
          ELSE << print_fix_instruction(<<"Syntax error: ">> \o details \o <<"\n\nCheck the line indicated in the error for typos or missing syntax.">>) >>

fix_indentation_error ==
    << print_diff(<<"def example():\n  line1  # 2 spaces\n    line2  # 4 spaces (inconsistent!)">>, <<"def example():\n    line1  # 4 spaces\n    line2  # 4 spaces (consistent)">>), print_fix_instruction(<<"Python requires consistent indentation.\n\nFix:\n1. Use either spaces OR tabs, not both\n2. Use 4 spaces per indentation level (recommended)\n3. Make sure all lines in a block have the same indentation\n\nTip: Configure your editor to convert tabs to spaces.">>) >>

fix_import_error(module, lang) ==
    IF lang = "Python"
    THEN << print_fix_instruction(<<"Module '">> \o module \o <<"' not found.\n\nOptions:\n\n1. Install the module:\n   pip install ">> \o module \o <<"\n\n2. Check if it's a local module - verify the file exists\n\n3. Check your PYTHONPATH if it's a custom module">>) >>
    ELSE << print_fix_instruction(<<"Module '">> \o module \o <<"' not found.\n\nCheck that the module is installed and the path is correct.">>) >>

fix_module_not_found(module, lang) ==
    IF lang \in {"JavaScript", "TypeScript"}
    THEN << print_fix_instruction(<<"Cannot find module '">> \o module \o <<"'\n\nOptions:\n\n1. Install the package:\n   npm install ">> \o module \o <<"\n\n2. If it's a local file, check the path:\n   import x from './">> \o module \o <<"'\n\n3. Check tsconfig.json paths if using TypeScript">>) >>
    ELSE << print_fix_instruction(<<"Module '">> \o module \o <<"' not found. Check installation and import path.">>) >>

fix_type_error(details, lang) ==
    << print_section(<<"Type Error">>), println(<<>>), print_error(details), println(<<>>) >>
    \o CASE lang = "TypeScript" -> << print_fix_instruction(<<"Type mismatch detected.\n\nOptions:\n\n1. Check the expected type vs what you're passing\n2. Add type assertion: value as ExpectedType\n3. Fix the source of the wrong type\n4. Update the type definition if it's incorrect">>) >>
         [] lang = "Python" -> << print_fix_instruction(<<"Operation not supported for this type.\n\nCheck what type your variable actually is:\n  print(type(your_variable))\n\nThen ensure the operation is valid for that type.">>) >>
         [] OTHER -> << print_fix_instruction(<<"Type mismatch. Check that your variables have the expected types.">>) >>

fix_borrow_error(details) ==
    << print_section(<<"Borrow Checker Error">>), println(<<>>), print_error(details), println(<<>>),
       print_fix_instruction(<<"Rust's borrow checker prevents data races.\n\nCommon fixes:\n\n1. Clone the data if ownership isn't needed:\n   let copy = data.clone();\n\n2. Use references instead of moving:\n   fn process(data: &MyType) { ... }\n\n3. Limit the scope of borrows:\n   {\n       let r = &mut data;\n       // use r\n   } // r dropped here\n\n4. Use Rc/Arc for shared ownership:\n   use std::rc::Rc;">>) >>

fix_key_error(key) ==
    << print_section(<<"KeyError - Missing Dictionary Key">>), println(<<>>),
       print_diff(<<"data[\"">> \o key \o <<"\"]  # raises KeyError if missing">>, <<"data.get(\"">> \o key \o <<"\", default_value)  # returns default if missing">>),
       print_fix_instruction(<<"The key '">> \o key \o <<"' doesn't exist in the dictionary.\n\nOptions:\n\n1. Use .get() with a default value:\nvalue = data.get(\"">> \o key \o <<"\", None)\n\n2. Check if key exists first:\nif \"">> \o key \o <<"\" in data:\nvalue = data[\"">> \o key \o <<"\"]\n\n3. Use try/except:\ntry:\nvalue = data[\"">> \o key \o <<"\"]\nexcept KeyError:\nvalue = default">>) >>

fix_attribute_error(details) ==
    << print_section(<<"AttributeError">>), println(<<>>) >>
    \o IF Contains(details, <<"'", "None", "Type", "'">>)
       THEN << print_diff(<<"result.method()  # result is None!">>, <<"if result is not None:\n    result.method()">>), print_fix_instruction(<<"You're calling a method on a None value.\n\nThe variable is None when you expected an object.\n\nFix:\n\n1. Check for None before using:\nif result is not None:\nresult.method()\n\n2. Use a default value:\nresult = get_result() or default_value\n\n3. Find why the value is None and fix the source">>) >>
       ELSE << print_fix_instruction(<<"AttributeError: ">> \o details \o <<"\n\nThe object doesn't have the attribute/method you're trying to use.\n\nCheck:\n1. Spelling of the attribute name\n2. The type of the object (use type(obj))\n3. If the object is None unexpectedly">>) >>

fix_value_error(details) ==
    << print_section(<<"ValueError">>), println(<<>>) >>
    \o IF Contains(details, <<"fromisoformat">>) \/ Contains(details, <<"time data">>)
       THEN << print_diff(<<"datetime.fromisoformat(date_string)  # fails if invalid">>, <<"try:\n    dt = datetime.fromisoformat(date_string)\nexcept (ValueError, TypeError):\n    dt = None">>), print_fix_instruction(<<"The datetime string is invalid or None.\n\nFix:\n\n1. Validate before parsing:\nif date_string:\ndt = datetime.fromisoformat(date_string)\n\n2. Use try/except:\ntry:\ndt = datetime.fromisoformat(date_string)\nexcept (ValueError, TypeError):\ndt = datetime.now()  # or None">>) >>
       ELSE << print_fix_instruction(<<"ValueError: ">> \o details \o <<"\n\nThe value has the right type but invalid content.\n\nValidate the data before using it.">>) >>

fix_missing_env_var(details) ==
    << print_section(<<"Missing Environment Variable">>), println(<<>>), print_error(<<"Environment variable is not set - value is None!">>), println(<<>>),
       print_diff(<<"API_URL = os.getenv(\"API_URL\")  # Returns None if not set!\nurl = f\"{API_URL}/endpoint\"  # Becomes 'None/endpoint'">>, <<"API_URL = os.getenv(\"API_URL\")\nif not API_URL:\n    raise ValueError(\"API_URL environment variable is required\")\nurl = f\"{API_URL}/endpoint\"">>),
       print_fix_instruction(<<"os.getenv() returns None when the variable isn't set.\n\nFix:\n\n1. Set the environment variable:\n- Create/edit .env file: API_URL=https://api.example.com\n- Or set in terminal: export API_URL=https://api.example.com\n\n2. Add validation in your code:\nAPI_URL = os.getenv(\"API_URL\")\nif not API_URL:\nraise ValueError(\"API_URL is required\")\n\n3. Use a default value:\nAPI_URL = os.getenv(\"API_URL\", \"https://default-api.com\")">>) >>

\* the rules of the RequestsError remediation with the Timeout rule first
fix_requests_error_TimeoutFirst(details) ==
    << print_section(<<"Requests Library Error">>), println(<<>>), print_error(details), println(<<>>) >>
    \o IF Contains(details, <<"Timeout">>)
       THEN << print_fix_instruction(<<"Request timed out.\n\nFix:\n1. Increase the timeout:\nrequests.get(url, timeout=30)\n\n2. Check if the server is slow/overloaded\n3. Add retry logic:\nfrom requests.adapters import HTTPAdapter\nfrom urllib3.util.retry import Retry">>) >>
       ELSE IF Contains(details, <<"ConnectionError">>) \/ Contains(details, <<"connect">>)
       THEN << print_fix_instruction(<<"Could not connect to the server.\n\nCheck:\n1. Is the URL correct?\n2. Is the server running?\n3. Is your internet connection working?\n4. Is there a firewall blocking the request?">>) >>
       ELSE << print_fix_instruction(<<"Add proper error handling:\n\ntry:\nresponse = requests.get(url, timeout=10)\nresponse.raise_for_status()\nexcept requests.exceptions.RequestException as e:\nprint(f\"Request failed: {e}\")">>) >>

fix_requests_error(details) ==
    << print_section(<<"Requests Library Error">>), println(<<>>), print_error(details), println(<<>>) >>
    \o IF Contains(details, <<"ConnectionError">>) \/ Contains(details, <<"connect">>)
       THEN << print_fix_instruction(<<"Could not connect to the server.\n\nCheck:\n1. Is the URL correct?\n2. Is the server running?\n3. Is your internet connection working?\n4. Is there a firewall blocking the request?">>) >>
       ELSE IF Contains(details, <<"Timeout">>)
       THEN << print_fix_instruction(<<"Request timed out.\n\nFix:\n1. Increase the timeout:\nrequests.get(url, timeout=30)\n\n2. Check if the server is slow/overloaded\n3. Add retry logic:\nfrom requests.adapters import HTTPAdapter\nfrom urllib3.util.retry import Retry">>) >>
       ELSE << print_fix_instruction(<<"Add proper error handling:\n\ntry:\nresponse = requests.get(url, timeout=10)\nresponse.raise_for_status()\nexcept requests.exceptions.RequestException as e:\nprint(f\"Request failed: {e}\")">>) >>

\* match &error.error_type
show_fix_for_error(error) ==
    LET t == error.error_type.tag
        a == error.error_type.arg
        lang == error.language
    IN CASE t = "MissingInclude" -> fix_missing_include(a, lang)
         [] t = "MissingSemicolon" -> fix_missing_semicolon(lang)
         [] t = "UndeclaredVariable" -> fix_undeclared_variable(a, lang)
         [] t = "SyntaxError" -> fix_syntax_error(a, lang)
         [] t = "IndentationError" -> fix_indentation_error
         [] t = "ImportError" -> fix_import_error(a, lang)
         [] t = "ModuleNotFound" -> fix_module_not_found(a, lang)
         [] t = "TypeError" -> fix_type_error(a, lang)
         [] t = "BorrowError" -> fix_borrow_error(a)
         [] t = "KeyError" -> fix_key_error(a)
         [] t = "AttributeError" -> fix_attribute_error(a)
         [] t = "ValueError" -> fix_value_error(a)
         [] t = "MissingEnvVar" -> fix_missing_env_var(a)
         [] t = "RequestsError" -> fix_requests_error(a)
         [] t = "Unknown" -> << print_warning(<<"No automatic fix for: ">> \o a), print_hint(<<"Check the error message and fix manually">>) >>

\* the four checks with the last one first
try_common_patterns_TokenFirst(error_text) ==
    LET lower == to_lowercase(error_text)
    IN IF Contains(lower, <<"un", "expected", SP, "token">>) \/ Contains(lower, <<"was never closed">>)
       THEN Some(<<"Syntax error - check for:\n<bullet> Missing or extra brackets { } [ ] ( )\n<bullet> Unclosed strings\n<bullet> Missing semicolons or commas">>)
       ELSE IF Contains(lower, <<"expected", SP, "'", ";", "'">>) \/ Contains(lower, <<"missing semicolon">>)
       THEN Some(<<"Add a semicolon (;) at the end of the line.">>)
       ELSE IF Contains(lower, <<"is not a member of">>) \/ Contains(lower, <<"was not declared">>)
       THEN Some(<<"You're using something that hasn't been imported/included.\nAdd the appropriate #include or import statement at the top of your file.">>)
       ELSE IF Contains(lower, <<"is not defined">>) \/ Contains(lower, <<"undeclared">>)
       THEN Some(<<"Variable is not defined.\nEither declare it before using, or check for typos in the name.">>)
       ELSE None

\* four substring checks on the lower-cased text, the first that matches
\* decides
try_common_patterns(error_text) ==
    LET lower == to_lowercase(error_text)
    IN IF Contains(lower, <<"expected", SP, "'", ";", "'">>) \/ Contains(lower, <<"missing semicolon">>)
       THEN Some(<<"Add a semicolon (;) at the end of the line.">>)
       ELSE IF Contains(lower, <<"is not a member of">>) \/ Contains(lower, <<"was not declared">>)
       THEN Some(<<"You're using something that hasn't been imported/included.\nAdd the appropriate #include or import statement at the top of your file.">>)
       ELSE IF Contains(lower, <<"is not defined">>) \/ Contains(lower, <<"undeclared">>)
       THEN Some(<<"Variable is not defined.\nEither declare it before using, or check for typos in the name.">>)
       ELSE IF Contains(lower, <<"un", "expected", SP, "token">>) \/ Contains(lower, <<"was never closed">>)
       THEN Some(<<"Syntax error - check for:\n<bullet> Missing or extra brackets { } [ ] ( )\n<bullet> Unclosed strings\n<bullet> Missing semicolons or commas">>)
       ELSE None

(***************************************************************************)
(* Input texts: fragments of compiler and interpreter output, one or more  *)
(* per text, one per line.                                                 *)
(***************************************************************************)
\* main.cpp:5:10: error: 'vector' is not a member of 'std'
CppVector ==
    <<"main", ".", "cpp", ":", "5", ":", "1", "0", ": error: ", "'",
      "vector", "'", SP, "is not a member of", SP, "'", "std", "'">>

\* main.cpp:8:12: error: 'myVar' was not declared in this scope
CppUndeclared ==
    <<"main", ".", "cpp", ":", "8", ":", "1", "2", ": error: ", "'",
      "myVar", "'", SP, "was not declared", SP, "in this scope">>

\* test.h:10:5: error: expected ';' before 'return'
CppSemicolon ==
    <<"test", ".", "h", ":", "1", "0", ":", "5", ": error: ", "expected",
      SP, "'", ";", "'", SP, "before", SP, "'", "return", "'">>

\* main.cpp:5:10: error: Expected ';' after use of undeclared identifier 'myVar'
CppSemiUndecl ==
    <<"main", ".", "cpp", ":", "5", ":", "1", "0", ": error: ", "Expected",
      SP, "'", ";", "'", SP, "after", SP, "use of", SP, "undeclared", SP,
      "identifier", SP, "'", "myVar", "'">>

\* main.cpp:5:10: error: use of undeclared identifier 'myVar'
CppUseOf ==
    <<"main", ".", "cpp", ":", "5", ":", "1", "0", ": error: ", "use of",
      SP, "undeclared", SP, "identifier", SP, "'", "myVar", "'">>

\* main.cpp:5:10: error: use of undeclared identifier 'Vector'
CppUseOfVector ==
    <<"main", ".", "cpp", ":", "5", ":", "1", "0", ": error: ", "use of",
      SP, "undeclared", SP, "identifier", SP, "'", "Vector", "'">>

\* main.cpp:5:10: error: Use of Undeclared identifier 'myVar'
CppUseOfCaps ==
    <<"main", ".", "cpp", ":", "5", ":", "1", "0", ": error: ", "Use of",
      SP, "Undeclared", SP, "identifier", SP, "'", "myVar", "'">>

\* main.cpp:5:10: error: 'set' and 'map' was not declared
CppSetMap ==
    <<"main", ".", "cpp", ":", "5", ":", "1", "0", ": error: ", "'", "set",
      "'", SP, "and", SP, "'", "map", "'", SP, "was not declared">>

\* main.cpp:5:10: error: 'map' and 'cin' and 'string' was not declared
CppMapCinString ==
    <<"main", ".", "cpp", ":", "5", ":", "1", "0", ": error: ", "'", "map",
      "'", SP, "and", SP, "'", "cin", "'", SP, "and", SP, "'", "string",
      "'", SP, "was not declared">>

\* main.cpp:5:10: error: 'string' and 'Vector' was not declared
CppStringVector ==
    <<"main", ".", "cpp", ":", "5", ":", "1", "0", ": error: ", "'",
      "string", "'", SP, "and", SP, "'", "Vector", "'", SP,
      "was not declared">>

\* main.cpp:5:10: error: 'cout' is not a member of 'std'
CppCout ==
    <<"main", ".", "cpp", ":", "5", ":", "1", "0", ": error: ", "'", "cout",
      "'", SP, "is not a member of", SP, "'", "std", "'">>

\* main.cpp:5:10: error: Invalid Conversion to 'vector'
CppUnknown ==
    <<"main", ".", "cpp", ":", "5", ":", "1", "0", ": error: ",
      "Invalid Conversion", SP, "to", SP, "'", "vector", "'">>

\* main.cpp:5:10: error: expected ';' before 'myVar' was not declared
CppSemiDeclared ==
    <<"main", ".", "cpp", ":", "5", ":", "1", "0", ": error: ", "expected",
      SP, "'", ";", "'", SP, "before", SP, "'", "myVar", "'", SP,
      "was not declared">>

\* main.cpp:5:10: error: expected ';' after 'set' was not declared
CppSemiSet ==
    <<"main", ".", "cpp", ":", "5", ":", "1", "0", ": error: ", "expected",
      SP, "'", ";", "'", SP, "after", SP, "'", "set", "'", SP,
      "was not declared">>

\* #include <iostream>
CppInclude ==
    <<"#include <", "iostream", ">">>

\* main.cpp:4294967296:1: error: 'vector' is not a member of 'std'
CppLineOverflow ==
    <<"main", ".", "cpp", ":", "4", "2", "9", "4", "9", "6", "7", "2", "9",
      "6", ":", "1", ": error: ", "'", "vector", "'", SP,
      "is not a member of", SP, "'", "std", "'">>

\* main.cpp:1:4294967296: error: 'vector' is not a member of 'std'
CppColOverflow ==
    <<"main", ".", "cpp", ":", "1", ":", "4", "2", "9", "4", "9", "6", "7",
      "2", "9", "6", ": error: ", "'", "vector", "'", SP,
      "is not a member of", SP, "'", "std", "'">>

\* main.cpp:4294967295:1: error: 'vector' is not a member of 'std'
CppLineMax ==
    <<"main", ".", "cpp", ":", "4", "2", "9", "4", "9", "6", "7", "2", "9",
      "5", ":", "1", ": error: ", "'", "vector", "'", SP,
      "is not a member of", SP, "'", "std", "'">>

\* main.cpp:0:0: error: Invalid Conversion to 'vector'
CppZero ==
    <<"main", ".", "cpp", ":", "0", ":", "0", ": error: ",
      "Invalid Conversion", SP, "to", SP, "'", "vector", "'">>

\* main.cpp:5:10: warning: unused variable
CppWarning ==
    <<"main", ".", "cpp", ":", "5", ":", "1", "0", ": warning: ",
      "unused variable">>

\* File "app.py", line 15
PyFile ==
    <<"File \"", "app", ".", "py", "\", line ", "1", "5">>

\* File "app.py", line 4294967296
PyFileOverflow ==
    <<"File \"", "app", ".", "py", "\", line ", "4", "2", "9", "4", "9",
      "6", "7", "2", "9", "6">>

\* File "app.py", line 0
PyFileZero ==
    <<"File \"", "app", ".", "py", "\", line ", "0">>

\* NameError: name 'undefined_var' is not defined
PyNameError ==
    <<"NameError", ": ", "name", SP, "'", "undefined_var", "'", SP,
      "is not defined">>

\* NameError: Invalid Conversion
PyNameOther ==
    <<"NameError", ": ", "Invalid Conversion">>

\* ImportError: No module named 'numpy'
PyImport ==
    <<"ImportError", ": ", "No module named", SP, "'", "numpy", "'">>

\* ModuleNotFoundError: No module named 'numpy'
PyModule ==
    <<"ModuleNotFoundError", ": ", "No module named", SP, "'", "numpy", "'">>

\* ImportError: cannot import name x
PyImportOther ==
    <<"ImportError", ": ", "cannot import name", SP, "x">>

\* SyntaxError: invalid syntax
PySyntax ==
    <<"SyntaxError", ": ", "invalid syntax">>

\* SyntaxError: unexpected token
PySyntaxToken ==
    <<"SyntaxError", ": ", "un", "expected", SP, "token">>

\* SyntaxError: '(' was never closed
PySyntaxClosed ==
    <<"SyntaxError", ": ", "'", "(", "'", SP, "was never closed">>

\* SyntaxError: expected ':'
PySyntaxExpected ==
    <<"SyntaxError", ": ", "expected", SP, "'", ":", "'">>

\* IndentationError: unexpected indent
PyIndent ==
    <<"IndentationError", ": ", "un", "expected", SP, "indent">>

\* TypeError: mismatched types
PyType ==
    <<"TypeError", ": ", "mismatched types">>

\* KeyError: 'k'
PyKey ==
    <<"KeyError", ": ", "'", "k", "'">>

\* AttributeError: 'NoneType' object has no attribute 'split'
PyAttribute ==
    <<"AttributeError", ": ", "'", "None", "Type", "'", SP, "object", SP,
      "has no attribute", SP, "'", "split", "'">>

\* ValueError: invalid syntax
PyValue ==
    <<"ValueError", ": ", "invalid syntax">>

\* ValueError: Invalid URL fromisoformat 'x'
PyValueIso ==
    <<"ValueError", ": ", "Invalid URL", SP, "fromisoformat", SP, "'", "x",
      "'">>

\* requests.exceptions.Timeout: Invalid URL 'x'
PyReqTimeout ==
    <<"requests", ".", "exceptions", ".", "Timeout", ": ", "Invalid URL",
      SP, "'", "x", "'">>

\* requests.exceptions.MissingSchema: Invalid URL 'x'
PyReqSchema ==
    <<"requests", ".", "exceptions", ".", "MissingSchema", ": ",
      "Invalid URL", SP, "'", "x", "'">>

\* requests.exceptions.ConnectionError: Failed to connect
PyReqConnect ==
    <<"requests", ".", "exceptions", ".", "ConnectionError", ": ", "Failed",
      SP, "to", SP, "connect">>

\* requests.exceptions.Timeout: Invalid URL 'None/api'
PyReqNone ==
    <<"requests", ".", "exceptions", ".", "Timeout", ": ", "Invalid URL",
      SP, "'", "None", "/", "api", "'">>

\* requests.exceptions.Timeout: Invalid URL 'none/api'
PyReqLower ==
    <<"requests", ".", "exceptions", ".", "Timeout", ": ", "Invalid URL",
      SP, "'", "none", "/", "api", "'">>

\* app.js:15:20
JsLoc ==
    <<"app", ".", "js", ":", "1", "5", ":", "2", "0">>

\* at app.ts:3
TsLocNoCol ==
    <<"at", SP, "app", ".", "ts", ":", "3">>

\* at app.tsx:7:1
TsxLoc ==
    <<"at", SP, "app", ".", "tsx", ":", "7", ":", "1">>

\* index.mjs:2
MjsLocNoCol ==
    <<"index", ".", "mjs", ":", "2">>

\* app.js:4294967296:1
JsLineOverflow ==
    <<"app", ".", "js", ":", "4", "2", "9", "4", "9", "6", "7", "2", "9",
      "6", ":", "1">>

\* app.js:1:4294967296
JsColOverflow ==
    <<"app", ".", "js", ":", "1", ":", "4", "2", "9", "4", "9", "6", "7",
      "2", "9", "6">>

\* ReferenceError: myFunction is not defined
JsReference ==
    <<"ReferenceError", ": ", "myFunction", SP, "is not defined">>

\* ReferenceError: invalid syntax
JsReferenceOther ==
    <<"ReferenceError", ": ", "invalid syntax">>

\* src/app.ts(10,15): error TS2304: Cannot find name 'unknownType'
Tsc2304 ==
    <<"src", "/", "app", ".", "ts", "(", "1", "0", ",", "1", "5",
      "): error ", "TS", "2", "3", "0", "4", ": ", "Cannot find name", SP,
      "'", "unknownType", "'">>

\* index.ts(1,20): error TS2307: Cannot find module 'numpy'
Tsc2307 ==
    <<"index", ".", "ts", "(", "1", ",", "2", "0", "): error ", "TS", "2",
      "3", "0", "7", ": ", "Cannot find module", SP, "'", "numpy", "'">>

\* app.ts(1,2): error TS2552: mismatched types
Tsc2552Other ==
    <<"app", ".", "ts", "(", "1", ",", "2", "): error ", "TS", "2", "5",
      "5", "2", ": ", "mismatched types">>

\* app.ts(1,2): error TS9999: Cannot find name 'x'
Tsc9999 ==
    <<"app", ".", "ts", "(", "1", ",", "2", "): error ", "TS", "9", "9",
      "9", "9", ": ", "Cannot find name", SP, "'", "x", "'">>

\* app.ts(4294967296,2): error TS2304: Cannot find name 'x'
TscOverflow ==
    <<"app", ".", "ts", "(", "4", "2", "9", "4", "9", "6", "7", "2", "9",
      "6", ",", "2", "): error ", "TS", "2", "3", "0", "4", ": ",
      "Cannot find name", SP, "'", "x", "'">>

\* error[E0425]: cannot find value BQxBQ in this scope
RustCannotFind ==
    <<"error[E", "0", "4", "2", "5", "]", ": ", "cannot find", SP, "value",
      SP, BQ, "x", BQ, SP, "in this scope">>

\* error[E0502]: cannot borrow BQxBQ as mutable
RustBorrow ==
    <<"error[E", "0", "5", "0", "2", "]", ": ", "cannot", SP, "borrow", SP,
      BQ, "x", BQ, SP, "as mutable">>

\* error[E0308]: mismatched types
RustMismatch ==
    <<"error[E", "0", "3", "0", "8", "]", ": ", "mismatched types">>

\* error[E0433]: cannot find macro BQborrowBQ
RustFindBorrow ==
    <<"error[E", "0", "4", "3", "3", "]", ": ", "cannot find", SP, "macro",
      SP, BQ, "borrow", BQ>>

\*  --> src/main.rs:5:10
RustLoc ==
    <<SP, "--", ">", SP, "src", "/", "main", ".", "rs", ":", "5", ":", "1",
      "0">>

\* error: could not compile
RustAbort ==
    <<"error: ", "could not compile">>

\*  --> src/main.rs:4294967296:1
RustLocOverflow ==
    <<SP, "--", ">", SP, "src", "/", "main", ".", "rs", ":", "4", "2", "9",
      "4", "9", "6", "7", "2", "9", "6", ":", "1">>

\* expected ';' before return
FbSemicolon ==
    <<"expected", SP, "'", ";", "'", SP, "before", SP, "return">>

\* Missing Semicolon
FbMissing ==
    <<"Missing Semicolon">>

\* 'vector' is not a member of 'std'
FbMember ==
    <<"'", "vector", "'", SP, "is not a member of", SP, "'", "std", "'">>

\* 'myVar' was not declared in this scope
FbDeclared ==
    <<"'", "myVar", "'", SP, "was not declared", SP, "in this scope">>

\* use of undeclared identifier 'myVar'
FbUndeclared ==
    <<"use of", SP, "undeclared", SP, "identifier", SP, "'", "myVar", "'">>

\* completely random text
Prose ==
    <<"completely random text">>

\* File "app.py", line 15
\* TypeError: mismatched types
PyBlock ==
    <<"File \"", "app", ".", "py", "\", line ", "1", "5", NL, "TypeError",
      ": ", "mismatched types">>

\* app.js:15:20
\* ReferenceError: myFunction is not defined
JsBlock ==
    <<"app", ".", "js", ":", "1", "5", ":", "2", "0", NL, "ReferenceError",
      ": ", "myFunction", SP, "is not defined">>

\* error[E0502]: cannot borrow BQxBQ as mutable
\*  --> src/main.rs:5:10
RustBlock ==
    <<"error[E", "0", "5", "0", "2", "]", ": ", "cannot", SP, "borrow", SP,
      BQ, "x", BQ, SP, "as mutable", NL, SP, "--", ">", SP, "src", "/",
      "main", ".", "rs", ":", "5", ":", "1", "0">>

\* main.cpp:5:10: warning: unused variable
\* test.h:10:5: error: expected ';' before 'return'
\* main.cpp:5:10: error: 'vector' is not a member of 'std'
ScanBlock ==
    <<"main", ".", "cpp", ":", "5", ":", "1", "0", ": warning: ",
      "unused variable", NL, "test", ".", "h", ":", "1", "0", ":", "5",
      ": error: ", "expected", SP, "'", ";", "'", SP, "before", SP, "'",
      "return", "'", NL, "main", ".", "cpp", ":", "5", ":", "1", "0",
      ": error: ", "'", "vector", "'", SP, "is not a member of", SP, "'",
      "std", "'">>

CppPool ==
    {CppVector, CppUndeclared, CppSemicolon, CppSemiUndecl, CppUseOf,
     CppUseOfCaps, CppSetMap, CppMapCinString, CppStringVector, CppCout,
     CppUnknown, CppSemiDeclared, CppSemiSet, CppInclude, CppLineOverflow,
     CppLineMax, CppZero, CppWarning, Prose}

PyPool ==
    {PyFile, PyNameError, PyNameOther, PyImport, PyModule, PyImportOther,
     PySyntax, PyIndent, PyType, PyKey, PyAttribute, PyValue, PyReqSchema,
     PyReqConnect, PyReqNone, PyReqLower, PyBlock, PyFileOverflow, Prose}

JsPool ==
    {JsLoc, TsLocNoCol, JsReference, JsReferenceOther, PySyntax, PyType,
     Tsc2304, Tsc2307, Tsc2552Other, Tsc9999, TscOverflow, JsBlock, TsxLoc,
     MjsLocNoCol, JsLineOverflow, JsColOverflow, Prose}

RustPool ==
    {RustCannotFind, RustBorrow, RustMismatch, RustFindBorrow, RustLoc,
     RustLocOverflow, RustBlock, Prose}

AnalyzePool ==
    {CppVector, CppSemicolon, CppUseOfVector, CppUnknown, PyFile,
     PyNameError, PyIndent, PyKey, PySyntaxToken, PyReqConnect, JsLoc,
     JsReference, Tsc2307, RustBorrow, RustLoc, RustMismatch, FbSemicolon,
     FbDeclared, Prose}

FallbackPool ==
    {FbSemicolon, FbMissing, FbMember, FbDeclared, FbUndeclared, JsReference,
     PyNameError, PySyntaxToken, PySyntaxClosed, PyIndent, Prose}

KindPool ==
    {CppVector, CppSemicolon, CppUndeclared, CppUnknown, PyFile, PySyntax,
     PyIndent, PyNameError, PyImport, PyModule, PyType, PyKey, PyAttribute,
     PyValue, PyReqSchema, PyReqConnect, JsLoc, TsLocNoCol, JsReference,
     Tsc2304, Tsc2307, Tsc9999, RustCannotFind, RustBorrow, RustMismatch,
     RustLoc, Prose}

OverflowPool ==
    {CppLineOverflow, CppColOverflow, CppLineMax, PyFile, PyFileOverflow,
     PyType, PyReqConnect, JsLoc, JsLineOverflow, JsColOverflow, JsReference,
     Tsc2304, TscOverflow, RustBorrow, RustLoc, RustLocOverflow, Prose}

ScanPool ==
    {CppSemicolon, CppVector, CppWarning, Tsc2304, RustBorrow, RustAbort,
     ScanBlock, Prose}

MixedPool ==
    {CppVector, CppLineOverflow, CppLineMax, CppZero, CppWarning, PyBlock,
     PyFile, PyFileOverflow, PyFileZero, PyReqConnect, PyType, JsBlock,
     JsLoc, JsLineOverflow, JsColOverflow, Tsc2304, TscOverflow, RustBlock,
     RustBorrow, RustLoc, RustLocOverflow, Prose}

\* the most fragments a text is made of
MaxFrags == 2

\* the texts made of at most n fragments of the pool, joined by line breaks
RECURSIVE Texts(_, _)
Texts(pool, n) ==
    IF n = 0 THEN {<<>>}
    ELSE LET T == Texts(pool, n - 1)
         IN T \cup pool \cup {t \o <<NL>> \o f : t \in T \ {<<>>}, f \in pool}

(***************************************************************************)
(* parse_error on the input text: one step per extractor, in the order of  *)
(* the source; the first diagnostic is returned.  out is what the current  *)
(* call of analyze_error has printed, fix the result of try_common_patterns *)
(* once it has been evaluated, ret the result of analyze_error once it has *)
(* returned, history the calls a session has made, config the loaded       *)
(* configuration; languages, errors, total_errors, next_line and count     *)
(* belong to the scan of a project.                                        *)
(***************************************************************************)
\* Config::default(): both lists of languages empty
DefaultConfig == [languages |-> [enabled |-> <<>>, disabled |-> <<>>]]

\* no scan of a project under way
NoScan ==
    /\ languages = <<>>
    /\ errors = <<>>
    /\ total_errors = 0
    /\ next_line = 0
    /\ count = 0

\* nothing printed, the fallback not evaluated, nothing returned, no call
\* made
Fresh ==
    /\ consulted = <<>>
    /\ parsed = None
    /\ out = <<>>
    /\ fix = None
    /\ ret = None
    /\ history = <<>>
    /\ config = DefaultConfig
    /\ NoScan

InitOver(pool) ==
    /\ input \in Texts(pool, MaxFrags)
    /\ pc = "cpp"
    /\ Fresh

Init == InitOver(MixedPool)

InitCpp == InitOver(CppPool)

InitPython == InitOver(PyPool)

InitJs == InitOver(JsPool)

InitRust == InitOver(RustPool)

\* TryCpp without the early return: the Python extractor is consulted even
\* when the C++ extractor has yielded a diagnostic
TryCpp_NoReturn ==
    /\ pc = "cpp"
    /\ consulted' = Append(consulted, "cpp")
    /\ parsed' = parse_cpp_error(input)
    /\ pc' = "python"
    /\ UNCHANGED <<input, out, fix, ret, history, config, scanvars>>

\* if let Some(err) = parse_cpp_error(input) { return Some(err); }
TryCpp ==
    /\ pc = "cpp"
    /\ consulted' = Append(consulted, "cpp")
    /\ IF IsSome(parse_cpp_error(input))
       THEN parsed' = parse_cpp_error(input) /\ pc' = "done"
       ELSE parsed' = parsed /\ pc' = "python"
    /\ UNCHANGED <<input, out, fix, ret, history, config, scanvars>>

\* if let Some(err) = parse_python_error(input) { return Some(err); }
TryPython ==
    /\ pc = "python"
    /\ consulted' = Append(consulted, "python")
    /\ IF IsSome(parse_python_error(input))
       THEN parsed' = parse_python_error(input) /\ pc' = "done"
       ELSE parsed' = parsed /\ pc' = "js"
    /\ UNCHANGED <<input, out, fix, ret, history, config, scanvars>>

\* if let Some(err) = parse_js_error(input) { return Some(err); }
TryJs ==
    /\ pc = "js"
    /\ consulted' = Append(consulted, "js")
    /\ IF IsSome(parse_js_error(input))
       THEN parsed' = parse_js_error(input) /\ pc' = "done"
       ELSE parsed' = parsed /\ pc' = "rust"
    /\ UNCHANGED <<input, out, fix, ret, history, config, scanvars>>

\* if let Some(err) = parse_rust_error(input) { return Some(err); }  None
TryRust ==
    /\ pc = "rust"
    /\ consulted' = Append(consulted, "rust")
    /\ IF IsSome(parse_rust_error(input))
       THEN parsed' = parse_rust_error(input) /\ pc' = "done"
       ELSE parsed' = None /\ pc' = "done"
    /\ UNCHANGED <<input, out, fix, ret, history, config, scanvars>>

Next == TryCpp \/ TryPython \/ TryJs \/ TryRust

Spec == Init /\ [][Next]_vars

SpecCpp == InitCpp /\ [][Next]_vars

SpecPython == InitPython /\ [][Next]_vars

SpecJs == InitJs /\ [][Next]_vars

SpecRust == InitRust /\ [][Next]_vars

\* texts of every kind of every language
InitKinds == InitOver(KindPool)

SpecKinds == InitKinds /\ [][Next]_vars

\* texts with numbers within and beyond 32 bits
InitOverflow == InitOver(OverflowPool)

SpecOverflow == InitOverflow /\ [][Next]_vars

\* parse_error as a function of the text: the first diagnostic in the order
\* of the extractors
parse_error(in) ==
    IF IsSome(parse_cpp_error(in)) THEN parse_cpp_error(in)
    ELSE IF IsSome(parse_python_error(in)) THEN parse_python_error(in)
    ELSE IF IsSome(parse_js_error(in)) THEN parse_js_error(in)
    ELSE parse_rust_error(in)

(***************************************************************************)
(* analyze_error on the input text: the section title, parse_error, then   *)
(* the remediation of the diagnostic or the fallback on the raw text.      *)
(***************************************************************************)
\* Result<()>
Ok == "Ok"

InitAnalyze ==
    /\ input \in Texts(AnalyzePool, MaxFrags)
    /\ pc = "start"
    /\ Fresh

\* ui::print_section("Analyzing Error"); then parse_error(error_text)
AnalyzeError ==
    /\ pc = "start"
    /\ out' = Append(out, print_section(<<"Analyzing Error">>))
    /\ pc' = "cpp"
    /\ UNCHANGED <<input, consulted, parsed, fix, ret, history, config, scanvars>>

\* the remediation followed by the fallback on the raw text
ShowFix_ThenFallback ==
    /\ pc = "done"
    /\ IsSome(parsed)
    /\ fix' = Some(try_common_patterns(input))
    /\ out' = out \o show_parsed_error(Unwrap(parsed))
                  \o show_fix_for_error(Unwrap(parsed))
                  \o IF IsSome(try_common_patterns(input))
                     THEN << print_fix_instruction(Unwrap(try_common_patterns(input))) >>
                     ELSE <<>>
    /\ ret' = Some(Ok)
    /\ pc' = "returned"
    /\ UNCHANGED <<input, consulted, parsed, history, config, scanvars>>

\* Some(error): show_parsed_error(&error); show_fix_for_error(&error); Ok(())
ShowFix ==
    /\ pc = "done"
    /\ IsSome(parsed)
    /\ out' = out \o show_parsed_error(Unwrap(parsed))
                  \o show_fix_for_error(Unwrap(parsed))
    /\ ret' = Some(Ok)
    /\ pc' = "returned"
    /\ UNCHANGED <<input, consulted, parsed, fix, history, config, scanvars>>

\* the fallback that reports nothing when no check matches
Fallback_Silent ==
    /\ pc = "done"
    /\ IsNone(parsed)
    /\ fix' = Some(try_common_patterns(input))
    /\ out' = out
              \o << print_warning(<<"Could not fully parse error format">>), print_info(<<"Attempting pattern matching...">>), println(<<>>) >>
              \o IF IsSome(try_common_patterns(input))
                 THEN << print_fix_instruction(Unwrap(try_common_patterns(input))) >>
                 ELSE <<>>
    /\ ret' = Some(Ok)
    /\ pc' = "returned"
    /\ UNCHANGED <<input, consulted, parsed, history, config, scanvars>>

\* None: the two notices, then the instruction of try_common_patterns or the
\* report of an unknown pattern; Ok(())
Fallback ==
    /\ pc = "done"
    /\ IsNone(parsed)
    /\ fix' = Some(try_common_patterns(input))
    /\ out' = out
              \o << print_warning(<<"Could not fully parse error format">>), print_info(<<"Attempting pattern matching...">>), println(<<>>) >>
              \o IF IsSome(try_common_patterns(input))
                 THEN << print_fix_instruction(Unwrap(try_common_patterns(input))) >>
                 ELSE << print_error(<<"Unknown error pattern">>), print_hint(<<"Try 'ess list' to see supported error types">>) >>
    /\ ret' = Some(Ok)
    /\ pc' = "returned"
    /\ UNCHANGED <<input, consulted, parsed, history, config, scanvars>>

NextAnalyze == AnalyzeError \/ TryCpp \/ TryPython \/ TryJs \/ TryRust \/ ShowFix \/ Fallback

SpecAnalyze == InitAnalyze /\ [][NextAnalyze]_vars

(***************************************************************************)
(* try_common_patterns applied to a text.                                  *)
(***************************************************************************)
InitPatterns ==
    /\ input \in Texts(FallbackPool, MaxFrags)
    /\ pc = "patterns"
    /\ Fresh

ApplyPatterns ==
    /\ pc = "patterns"
    /\ fix' = Some(try_common_patterns(input))
    /\ pc' = "applied"
    /\ UNCHANGED <<input, consulted, parsed, out, ret, history, config, scanvars>>

NextPatterns == ApplyPatterns

SpecPatterns == InitPatterns /\ [][NextPatterns]_vars

(***************************************************************************)
(* show_fix_for_error applied to a diagnostic.                             *)
(***************************************************************************)
\* enum Language
Languages == {"Cpp", "Python", "JavaScript", "TypeScript", "Rust", "Unknown"}

\* the texts a kind carries: names, details of syntax errors, details of
\* requests errors
Payloads ==
    { <<"vector">>, <<"Vector">>, <<"VECTOR">>, <<"string">>, <<"map">>,
      <<"set">>, <<"list">>, <<"deque">>, <<"array">>, <<"unique_ptr">>,
      <<"shared_ptr">>, <<"optional">>, <<"variant">>,
      <<"myVar">>, <<"MyClass">>, <<"vector", "map">>, <<"numpy">>,
      <<"un", "expected", SP, "token">>,
      <<"'", "(", "'", SP, "was never closed">>,
      <<"Unterminated", SP, "string">>,
      <<"Expected", SP, "'", ":", "'">>,
      <<"expected", SP, "'", ")", "'", SP, "was never closed">>,
      <<"un", "expected", SP, "indent">>,
      <<"invalid syntax">>,
      <<"'", "None", "Type", "'", SP, "object">>,
      <<"ConnectionError", ": ", "Failed", SP, "to", SP, "connect">>,
      <<"Invalid URL", SP, "Failed", SP, "to", SP, "connect">>,
      <<"Timeout", ": ", "Invalid URL">>,
      <<"Timeout", ": ", "Failed", SP, "to", SP, "connect">>,
      <<"MissingSchema", ": ", "Invalid URL">> }

\* enum ErrorType
ErrorTypes ==
    {MissingSemicolon, IndentationError}
    \cup UNION { { MissingInclude(a), UndeclaredVariable(a), SyntaxError(a),
                   ImportError(a), TypeError(a), ModuleNotFound(a),
                   BorrowError(a), KeyError(a), AttributeError(a),
                   ValueError(a), MissingEnvVar(a), RequestsError(a),
                   Unknown(a) } : a \in Payloads }

\* the diagnostics given to the dispatcher: every kind in every language
Diagnostics ==
    { ParsedError(<<"main", ".", "cpp">>, Some(U32(0, 5)), None, <<"invalid syntax">>, t, l) :
        t \in ErrorTypes, l \in Languages }

InitRemediate ==
    /\ input = <<>>
    /\ pc = "remediate"
    /\ consulted = <<>>
    /\ parsed \in {Some(d) : d \in Diagnostics}
    /\ out = <<>>
    /\ fix = None
    /\ ret = None
    /\ history = <<>>
    /\ config = DefaultConfig
    /\ NoScan

Remediate ==
    /\ pc = "remediate"
    /\ out' = show_fix_for_error(Unwrap(parsed))
    /\ pc' = "remediated"
    /\ UNCHANGED <<input, consulted, parsed, fix, ret, history, config, scanvars>>

NextRemediate == Remediate

SpecRemediate == InitRemediate /\ [][NextRemediate]_vars

(***************************************************************************)
(* A session: calls of parse_error, try_common_patterns and                *)
(* show_fix_for_error in any order, each recorded with its argument and    *)
(* its result.  The functions have no static and no global; a call reads   *)
(* its argument only.                                                      *)
(***************************************************************************)
\* the most calls of a session
MaxCalls == 3

\* the texts of a session
SessionTexts == {CppVector, PyBlock, JsBlock, RustBlock, FbSemicolon, Prose, <<>>}

\* the diagnostics of a session
SessionDiagnostics ==
    { ParsedError(<<"main", ".", "cpp">>, Some(U32(0, 5)), None, <<"invalid syntax">>, t, l) :
        t \in {MissingInclude(<<"vector">>), MissingSemicolon, Unknown(<<"invalid syntax">>)},
        l \in {"Cpp", "Python"} }

InitSession ==
    /\ input = <<>>
    /\ pc = "session"
    /\ Fresh

\* parse_error that yields nothing once try_common_patterns has been called
CallParseError_Disturbed ==
    /\ pc = "session"
    /\ Len(history) < MaxCalls
    /\ \E t \in SessionTexts :
          history' = Append(history, [fn |-> "parse_error", arg |-> t,
                                      res |-> IF \E i \in 1..Len(history) :
                                                     history[i].fn = "try_common_patterns"
                                              THEN None ELSE parse_error(t)])
    /\ UNCHANGED <<input, pc, consulted, parsed, out, fix, ret, config, scanvars>>

CallParseError ==
    /\ pc = "session"
    /\ Len(history) < MaxCalls
    /\ \E t \in SessionTexts :
          history' = Append(history, [fn |-> "parse_error", arg |-> t,
                                      res |-> parse_error(t)])
    /\ UNCHANGED <<input, pc, consulted, parsed, out, fix, ret, config, scanvars>>

CallTryCommonPatterns ==
    /\ pc = "session"
    /\ Len(history) < MaxCalls
    /\ \E t \in SessionTexts :
          history' = Append(history, [fn |-> "try_common_patterns", arg |-> t,
                                      res |-> try_common_patterns(t)])
    /\ UNCHANGED <<input, pc, consulted, parsed, out, fix, ret, config, scanvars>>

CallShowFixForError ==
    /\ pc = "session"
    /\ Len(history) < MaxCalls
    /\ \E d \in SessionDiagnostics :
          history' = Append(history, [fn |-> "show_fix_for_error", arg |-> d,
                                      res |-> show_fix_for_error(d)])
    /\ UNCHANGED <<input, pc, consulted, parsed, out, fix, ret, config, scanvars>>

NextSession == CallParseError \/ CallTryCommonPatterns \/ CallShowFixForError

SpecSession == InitSession /\ [][NextSession]_vars

(***************************************************************************)
(* Config::is_language_enabled applied to a name under a configuration.    *)
(***************************************************************************)
\* the list of enabled languages consulted before the list of disabled ones
is_language_enabled_EnabledFirst(self, lang) ==
    LET lang_lower == to_lowercase(lang)
    IN IF \E i \in 1..Len(self.languages.enabled) :
             to_lowercase(self.languages.enabled[i]) = lang_lower
       THEN TRUE
       ELSE IF \E i \in 1..Len(self.languages.disabled) :
                  to_lowercase(self.languages.disabled[i]) = lang_lower
       THEN FALSE
       ELSE self.languages.enabled = <<>>

is_language_enabled(self, lang) ==
    LET lang_lower == to_lowercase(lang)
    IN IF \E i \in 1..Len(self.languages.disabled) :
             to_lowercase(self.languages.disabled[i]) = lang_lower
       THEN FALSE
       ELSE IF self.languages.enabled = <<>>
       THEN TRUE
       ELSE \E i \in 1..Len(self.languages.enabled) :
               to_lowercase(self.languages.enabled[i]) = lang_lower

\* the most names in a list of the configuration
MaxList == 2

\* the names of languages in a configuration file and in a query
LanguageNames == {<<"python">>, <<"Python">>, <<"PYTHON">>, <<"rust">>, <<"cpp">>}

\* the lists of at most n names
NameLists(n) == UNION {[1..k -> LanguageNames] : k \in 0..n}

InitConfig ==
    /\ input \in LanguageNames
    /\ pc = "config"
    /\ consulted = <<>>
    /\ parsed = None
    /\ out = <<>>
    /\ fix = None
    /\ ret = None
    /\ history = <<>>
    /\ config \in {[languages |-> [enabled |-> e, disabled |-> d]] :
                      e \in NameLists(MaxList), d \in NameLists(MaxList)}
    /\ NoScan

IsLanguageEnabled ==
    /\ pc = "config"
    /\ ret' = Some(is_language_enabled(config, input))
    /\ pc' = "checked"
    /\ UNCHANGED <<input, consulted, parsed, out, fix, history, config, scanvars>>

NextConfig == IsLanguageEnabled

SpecConfig == InitConfig /\ [][NextConfig]_vars

(***************************************************************************)
(* scanner.rs: scan_project over the languages of a project, and           *)
(* process_compiler_errors over the output of a toolchain.                 *)
(***************************************************************************)
\* ui::print_no_errors
print_no_errors == [fn |-> "print_no_errors", args |-> <<>>]

\* ui::print_errors_found
print_errors_found(n) == [fn |-> "print_errors_found", args |-> <<n>>]

\* fixer::analyze_error as a function of the text: what it prints; the
\* result of parse_error is computed once
analyze_error(error_text) ==
    CHOOSE printed \in
        { << print_section(<<"Analyzing Error">>) >>
          \o IF IsSome(parsed_error)
             THEN show_parsed_error(Unwrap(parsed_error))
                  \o show_fix_for_error(Unwrap(parsed_error))
             ELSE << print_warning(<<"Could not fully parse error format">>),
                     print_info(<<"Attempting pattern matching...">>),
                     println(<<>>) >>
                  \o IF IsSome(try_common_patterns(error_text))
                     THEN << print_fix_instruction(Unwrap(try_common_patterns(error_text))) >>
                     ELSE << print_error(<<"Unknown error pattern">>),
                             print_hint(<<"Try 'ess list' to see supported error types">>) >>
          : parsed_error \in {parse_error(error_text)} } : TRUE

\* str::lines: the lines of a text, without their line breaks; a line break
\* at the very end opens no further line
RECURSIVE Lines(_)
Lines(s) ==
    IF s = <<>> THEN <<>>
    ELSE LET k == MinPos({i \in 1..Len(s) : s[i] = NL})
         IN IF k = 0 THEN <<s>>
            ELSE <<SubSeq(s, 1, k - 1)>> \o Lines(SubSeq(s, k + 1, Len(s)))

\* line.contains("error:")
ContainsErrorColon(l) == \E i \in 1..Len(l) : l[i] \in HasErrorColon

\* languages.iter().map(|l| format!("{}", l)).collect::<Vec<_>>().join(", ")
RECURSIVE JoinDisplay(_)
JoinDisplay(ls) ==
    IF Len(ls) = 1 THEN LanguageDisplay(ls[1])
    ELSE LanguageDisplay(ls[1]) \o <<", ">> \o JoinDisplay(Tail(ls))

\* the directory scanned
ProjectPath == <<"/", "project">>

\* the lists of languages of a scan: the one language named by the caller
\* (Unknown for a name that is none of the five), or the languages of the
\* files found, each once, in the order found
LanguageLists ==
    { <<>>, <<"Unknown">>, <<"Rust">>, <<"TypeScript">>, <<"Python">>,
      <<"Cpp", "Rust">>, <<"JavaScript", "TypeScript">> }

\* the counts of the checkers that run one tool for each file (check_cpp,
\* check_python, check_javascript)
ToolCounts == {0, 1, 2}

\* the outputs of a toolchain that has reported failure
ScanOutputs == Texts(ScanPool, MaxFrags)

\* Result<()>::Err
Err == "Err"

InitScan ==
    /\ input = <<>>
    /\ pc = "scan"
    /\ Fresh

\* scan_project up to the loop over the languages
ScanProject ==
    /\ pc = "scan"
    /\ \E ls \in LanguageLists :
          /\ languages' = ls
          /\ out' = << print_section(<<"Scanning Project">>),
                       print_info(<<"Path: ">> \o ProjectPath) >>
                    \o IF ls = <<>>
                       THEN << print_warning(<<"No supported source files found">>),
                               print_hint(<<"Supported: C++, Python, JavaScript, TypeScript, Rust">>) >>
                       ELSE << print_info(<<"Languages: ">> \o JoinDisplay(ls)),
                               println(<<>>) >>
          /\ pc' = IF ls = <<>> THEN "scanned" ELSE "loop"
          /\ ret' = IF ls = <<>> THEN Some(Ok) ELSE None
    /\ total_errors' = 0
    /\ UNCHANGED <<input, consulted, parsed, fix, history, config, errors, next_line, count>>

\* let errors = check_language(&path, lang)?; total_errors += errors;
Counted(n) ==
    /\ errors' = Append(errors, [lang |-> Head(languages), errors |-> n])
    /\ total_errors' = total_errors + n
    /\ languages' = Tail(languages)

\* check_language: Language::Unknown => Ok(0)
CheckUnknown ==
    /\ pc = "loop"
    /\ languages # <<>>
    /\ Head(languages) = "Unknown"
    /\ Counted(0)
    /\ UNCHANGED <<input, pc, consulted, parsed, out, fix, ret, history, config, next_line, count>>

\* check_cpp, check_python, check_javascript: the count of the per-file runs
CheckFiles ==
    /\ pc = "loop"
    /\ languages # <<>>
    /\ Head(languages) \in {"Cpp", "Python", "JavaScript"}
    /\ \E n \in ToolCounts : Counted(n)
    /\ UNCHANGED <<input, pc, consulted, parsed, out, fix, ret, history, config, next_line, count>>

\* check_typescript, check_rust: the toolchain reports success, or npx
\* cannot be run, or there is no Cargo.toml: Ok(0)
CheckClean ==
    /\ pc = "loop"
    /\ languages # <<>>
    /\ Head(languages) \in {"TypeScript", "Rust"}
    /\ Counted(0)
    /\ UNCHANGED <<input, pc, consulted, parsed, out, fix, ret, history, config, next_line, count>>

\* check_rust: cargo cannot be run; the error is passed on by scan_project
CheckSpawnFails ==
    /\ pc = "loop"
    /\ languages # <<>>
    /\ Head(languages) = "Rust"
    /\ ret' = Some(Err)
    /\ pc' = "failed"
    /\ UNCHANGED <<input, consulted, parsed, out, fix, history, config, scanvars>>

\* check_typescript, check_rust: the toolchain reports failure;
\* process_compiler_errors is entered with its output
CheckOutput ==
    /\ pc = "loop"
    /\ languages # <<>>
    /\ Head(languages) \in {"TypeScript", "Rust"}
    /\ input' \in ScanOutputs
    /\ next_line' = 1
    /\ count' = 0
    /\ pc' = "lines"
    /\ UNCHANGED <<consulted, parsed, out, fix, ret, history, config, languages, errors, total_errors>>

\* process_compiler_errors with the analysis run at every line with error:
ProcessLine_AnalyzeEach ==
    /\ pc = "lines"
    /\ next_line <= Len(Lines(input))
    /\ LET l == Lines(input)[next_line]
       IN IF ContainsErrorColon(l)
          THEN /\ count' = count + 1
               /\ out' = out \o << print_error(l), println(<<>>) >> \o analyze_error(input)
               /\ history' = Append(history, [fn |-> "analyze_error", arg |-> input,
                                              res |-> Ok])
          ELSE UNCHANGED <<count, out, history>>
    /\ next_line' = next_line + 1
    /\ UNCHANGED <<input, pc, consulted, parsed, fix, ret, config, languages, errors, total_errors>>

\* process_compiler_errors: one line of the output
ProcessLine ==
    /\ pc = "lines"
    /\ next_line <= Len(Lines(input))
    /\ LET l == Lines(input)[next_line]
       IN IF ContainsErrorColon(l)
          THEN /\ count' = count + 1
               /\ out' = out \o << print_error(l) >>
                             \o IF count + 1 = 1
                                THEN << println(<<>>) >> \o analyze_error(input)
                                ELSE <<>>
               /\ history' = IF count + 1 = 1
                             THEN Append(history, [fn |-> "analyze_error", arg |-> input,
                                                   res |-> Ok])
                             ELSE history
          ELSE UNCHANGED <<count, out, history>>
    /\ next_line' = next_line + 1
    /\ UNCHANGED <<input, pc, consulted, parsed, fix, ret, config, languages, errors, total_errors>>

\* process_compiler_errors: Ok(count), returned through check_language to
\* the loop of scan_project
ProcessReturn ==
    /\ pc = "lines"
    /\ next_line > Len(Lines(input))
    /\ Counted(count)
    /\ pc' = "loop"
    /\ UNCHANGED <<input, consulted, parsed, out, fix, ret, history, config, next_line, count>>

\* scan_project after the loop: the total is reported; Ok(())
ScanTotal ==
    /\ pc = "loop"
    /\ languages = <<>>
    /\ out' = Append(out, IF total_errors = 0 THEN print_no_errors
                          ELSE print_errors_found(total_errors))
    /\ ret' = Some(Ok)
    /\ pc' = "scanned"
    /\ UNCHANGED <<input, consulted, parsed, fix, history, config, scanvars>>

NextScan ==
    \/ ScanProject \/ CheckUnknown \/ CheckFiles \/ CheckClean \/ CheckSpawnFails
    \/ CheckOutput \/ ProcessLine \/ ProcessReturn \/ ScanTotal

SpecScan == InitScan /\ [][NextScan]_vars

(***************************************************************************)
(* Notions the properties are stated with.                                 *)
(***************************************************************************)
\* the result of the extractor of language l on a text
Extract(l, in) ==
    CASE l = "cpp" -> parse_cpp_error(in)
      [] l = "python" -> parse_python_error(in)
      [] l = "js" -> parse_js_error(in)
      [] l = "rust" -> parse_rust_error(in)

\* the priority order of the extractors
Order == <<"cpp", "python", "js", "rust">>

\* the positions in Order of the extractors that yield a diagnostic on a text
Yielding(in) == {k \in 1..Len(Order) : IsSome(Extract(Order[k], in))}

\* parse_error has returned
Returned == pc = "done"

\* a digit string without its leading zeros
RECURSIVE StripZeros(_)
StripZeros(ds) ==
    IF Len(ds) > 1 /\ ds[1] = "0" THEN StripZeros(Tail(ds)) ELSE ds

\* the decimal notation of 2^32 - 1
MaxU32Digits == <<"4", "2", "9", "4", "9", "6", "7", "2", "9", "5">>

\* a <= b for digit strings of the same length
DigitsLeq(a, b) ==
    \/ a = b
    \/ \E k \in 1..Len(a) :
          /\ SubSeq(a, 1, k - 1) = SubSeq(b, 1, k - 1)
          /\ DigitVal(a[k]) < DigitVal(b[k])

\* the digit string denotes a number that is at most 2^32 - 1
FitsU32(ds) ==
    LET d == StripZeros(ds)
    IN \/ Len(d) < Len(MaxU32Digits)
       \/ Len(d) = Len(MaxU32Digits) /\ DigitsLeq(d, MaxU32Digits)

\* the decimal notation of a 32-bit number, by repeated division by ten
RECURSIVE ToDecimal(_)
ToDecimal(v) ==
    LET t == (v.hi % 10) * Half + v.lo
        digit == CHOOSE d \in Digits : DigitVal(d) = t % 10
    IN IF v.hi = 0 /\ v.lo < 10 THEN <<digit>>
       ELSE ToDecimal(U32(v.hi \div 10, t \div 10)) \o <<digit>>

\* an optional position is present and is the number the digit string denotes
IsNumber(pos, ds) == IsSome(pos) /\ ToDecimal(Unwrap(pos)) = StripZeros(ds)

(***************************************************************************)
(* C1.  parse_error consults the extractors in the order C++, Python,      *)
(* JavaScript/TypeScript, Rust, each one only after every extractor before *)
(* it has yielded nothing, and returns the diagnostic of the first one     *)
(* that yields one: when two or more extractors yield a diagnostic on the  *)
(* text, the one returned is that of the highest-priority one among them.  *)
(* An extractor yields a diagnostic exactly when the text satisfies its    *)
(* structural requirements.                                                *)
(***************************************************************************)
C1_FirstExtractorWins ==
    /\ \A k \in 1..Len(consulted) :
          /\ k <= Len(Order)
          /\ consulted[k] = Order[k]
          /\ \A j \in 1..(k - 1) : IsNone(Extract(Order[j], input))
    /\ Returned =>
          IF Yielding(input) = {}
          THEN parsed = None /\ consulted = Order
          ELSE /\ parsed = Extract(Order[MinPos(Yielding(input))], input)
               /\ Len(consulted) = MinPos(Yielding(input))

\* a text on which the Python and the JavaScript extractor both yield a
\* diagnostic, and the Python one has been returned
C1_Witness ==
    /\ Returned
    /\ Yielding(input) = {2, 3}
    /\ Unwrap(parsed).language = "Python"
    /\ consulted = <<"cpp", "python">>

(***************************************************************************)
(* C2.  A text that holds no C++ file:line:col: error: shape, no Python    *)
(* File/line marker and no requests.exceptions line, no tsc shape and no   *)
(* JavaScript/TypeScript file token together with an error name, and no    *)
(* Rust error[E..] header together with a --> location, gets None from     *)
(* parse_error, every extractor having been consulted.                     *)
(***************************************************************************)
NoMarkers(in) ==
    /\ IsNone(CppCaptures(in))
    /\ IsNone(PyFileCaptures(in))
    /\ IsNone(RequestsCaptures(in))
    /\ IsNone(TscCaptures(in))
    /\ IsNone(JsFileCaptures(in)) \/ IsNone(JsErrorCaptures(in))
    /\ IsNone(RustErrorCapture(in)) \/ IsNone(RustLocCaptures(in))

C2_NoMarkersNone ==
    Returned /\ NoMarkers(input) => parsed = None /\ consulted = Order

\* a text with a Rust header but no location and a JavaScript file token but
\* no error name: it has no complete marker, and None was returned
C2_Witness ==
    /\ Returned
    /\ NoMarkers(input)
    /\ IsSome(RustErrorCapture(input))
    /\ IsSome(JsFileCaptures(input))
    /\ parsed = None

(***************************************************************************)
(* Notions of the C++ properties.                                          *)
(***************************************************************************)
\* the diagnostic parse_error has returned
Diag == Unwrap(parsed)

\* parse_error has returned a C++ diagnostic
ReturnedCpp == Returned /\ IsSome(parsed) /\ Diag.language = "Cpp"

\* the lower-cased text has one of the two missing-include phrases
MissingIncludePhrase(msg) ==
    \/ Contains(to_lowercase(msg), <<"is not a member of", SP, "'", "std", "'">>)
    \/ Contains(to_lowercase(msg), <<"was not declared">>)

\* the tokens looked for in a message, in the order they are looked for, each
\* with the header it stands for
HeaderTokens ==
    <<<<"vector", "vector">>, <<"string", "string">>, <<"cout", "iostream">>,
      <<"cin", "iostream">>, <<"map", "map">>, <<"set", "set">>>>

\* the position in HeaderTokens of the first token the lower-cased message
\* contains, 0 when it contains none
FirstToken(msg) ==
    MinPos({k \in 1..Len(HeaderTokens) :
               Contains(to_lowercase(msg), <<HeaderTokens[k][1]>>)})

\* the missing-include rule decides the kind of a message of the text
IncludeRuleApplies(msg, full) ==
    /\ MissingIncludePhrase(msg)
    /\ IsSome(IncludeCapture(full)) \/ FirstToken(msg) # 0

\* the lower-cased message contains  expected ';'
ExpectedSemicolon(msg) ==
    Contains(to_lowercase(msg), <<"expected", SP, "'", ";", "'">>)

(***************************************************************************)
(* C3, as claimed.  For every text containing the C++ shape                *)
(* file.ext:line:col: error: message, parse_error returns a diagnostic     *)
(* with language Cpp whose file, line, column and message are the fields   *)
(* of that match, line and column both present.                            *)
(***************************************************************************)
C3_AsClaimed ==
    Returned /\ IsSome(CppCaptures(input)) =>
        /\ ReturnedCpp
        /\ Diag.file = Unwrap(CppCaptures(input)).file
        /\ Diag.message = Unwrap(CppCaptures(input)).message
        /\ IsNumber(Diag.line, Unwrap(CppCaptures(input)).line)
        /\ IsNumber(Diag.column, Unwrap(CppCaptures(input)).col)

(***************************************************************************)
(* C3, amended.  For every text whose leftmost C++ shape                   *)
(* file.ext:line:col: error: message has line and column digits that each  *)
(* denote a number of at most 2^32 - 1, parse_error returns a diagnostic   *)
(* with language Cpp whose file, line, column and message are the fields   *)
(* of that match, line and column both present; when the line or the       *)
(* column denotes a larger number no C++ diagnostic is returned.  The text *)
(* main.cpp:5:10: error: 'vector' is not a member of 'std' yields file     *)
(* main.cpp, line 5, column 10, kind MissingInclude("vector").             *)
(***************************************************************************)
C3_CppShapeFields ==
    /\ Returned /\ IsSome(CppCaptures(input)) =>
          LET m == Unwrap(CppCaptures(input))
          IN IF FitsU32(m.line) /\ FitsU32(m.col)
             THEN /\ ReturnedCpp
                  /\ Diag.file = m.file
                  /\ Diag.message = m.message
                  /\ IsNumber(Diag.line, m.line)
                  /\ IsNumber(Diag.column, m.col)
             ELSE ~ReturnedCpp
    /\ Returned /\ input = CppVector =>
          parsed = Some(ParsedError(<<"main", ".", "cpp">>, Some(U32(0, 5)),
                                    Some(U32(0, 10)),
                                    <<"'", "vector", "'", SP, "is not a member of",
                                      SP, "'", "std", "'">>,
                                    MissingInclude(<<"vector">>), "Cpp"))

\* a C++ diagnostic whose line is 2^32 - 1 and whose column is 1
C3_Witness ==
    /\ ReturnedCpp
    /\ Unwrap(CppCaptures(input)).line = MaxU32Digits
    /\ Diag.line = Some(U32(Half - 1, Half - 1))
    /\ Diag.column = Some(U32(0, 1))

(***************************************************************************)
(* C4.  For a C++ diagnostic whose message has a missing-include phrase:   *)
(* an #include <h> directive anywhere in the text makes the kind           *)
(* MissingInclude(h), whatever tokens the message contains; without a      *)
(* directive the first of the tokens vector, string, cout, cin, map, set   *)
(* that the lower-cased message contains decides the header (vector,       *)
(* string, iostream, iostream, map, set).                                  *)
(***************************************************************************)
C4_IncludeHeader ==
    ReturnedCpp /\ MissingIncludePhrase(Diag.message) =>
        IF IsSome(IncludeCapture(input))
        THEN /\ Diag.error_type = MissingInclude(Unwrap(IncludeCapture(input)))
             /\ Contains(input, <<"#include <">> \o Diag.error_type.arg \o <<">">>)
        ELSE IF FirstToken(Diag.message) # 0
             THEN Diag.error_type =
                      MissingInclude(<<HeaderTokens[FirstToken(Diag.message)][2]>>)
             ELSE Diag.error_type.tag # "MissingInclude"

\* a message with the tokens map, cin and string and no directive in the
\* text: the header is string
C4_Witness ==
    /\ ReturnedCpp
    /\ IsNone(IncludeCapture(input))
    /\ Contains(to_lowercase(Diag.message), <<"map">>)
    /\ Contains(to_lowercase(Diag.message), <<"cin">>)
    /\ Contains(to_lowercase(Diag.message), <<"string">>)
    /\ Diag.error_type = MissingInclude(<<"string">>)

(***************************************************************************)
(* C5, as claimed.  For every input accepted by the C++ extractor whose    *)
(* message contains expected ';' (compared case-insensitively) the kind is *)
(* MissingSemicolon.                                                       *)
(***************************************************************************)
C5_AsClaimed ==
    ReturnedCpp /\ ExpectedSemicolon(Diag.message) =>
        Diag.error_type = MissingSemicolon

(***************************************************************************)
(* C5, amended.  For every input accepted by the C++ extractor whose       *)
(* message contains expected ';' (compared case-insensitively): when the   *)
(* missing-include rule applies (the message has a missing-include phrase  *)
(* and the text has an #include directive or the message a header token)   *)
(* the kind is MissingInclude; otherwise the kind is MissingSemicolon,     *)
(* also when the message matches an undeclared-variable pattern.           *)
(***************************************************************************)
C5_SemicolonAfterInclude ==
    ReturnedCpp /\ ExpectedSemicolon(Diag.message) =>
        IF IncludeRuleApplies(Diag.message, input)
        THEN Diag.error_type.tag = "MissingInclude"
        ELSE Diag.error_type = MissingSemicolon

\* a message with expected ';' that also matches an undeclared-variable
\* pattern, classified MissingSemicolon
C5_Witness ==
    /\ ReturnedCpp
    /\ ExpectedSemicolon(Diag.message)
    /\ IsSome(UndeclCapture(to_lowercase(Diag.message)))
    /\ Diag.error_type = MissingSemicolon

(***************************************************************************)
(* C6.  For a C++ message that triggers neither the missing-include rule   *)
(* nor the semicolon rule: when it has the form 'name' was not declared or *)
(* use of undeclared identifier 'name' (in any letter case) the kind is    *)
(* UndeclaredVariable carrying the name in lower case ('myVar' gives       *)
(* "myvar"); when it has neither form the kind is Unknown carrying the     *)
(* message with its case unchanged.                                        *)
(***************************************************************************)
C6_UndeclaredOrUnknown ==
    /\ ReturnedCpp /\ ~IncludeRuleApplies(Diag.message, input)
         /\ ~ExpectedSemicolon(Diag.message) =>
          IF IsSome(UndeclCapture(to_lowercase(Diag.message)))
          THEN /\ Diag.error_type.tag = "UndeclaredVariable"
               /\ Diag.error_type.arg = Unwrap(UndeclCapture(to_lowercase(Diag.message)))
               /\ IsSome(UndeclCapture(Diag.message)) =>
                      Diag.error_type.arg =
                          to_lowercase(Unwrap(UndeclCapture(Diag.message)))
          ELSE Diag.error_type = Unknown(Diag.message)
    /\ ReturnedCpp /\ Diag.message = <<"use of", SP, "undeclared", SP, "identifier",
                                       SP, "'", "myVar", "'">> =>
          Diag.error_type = UndeclaredVariable(<<"myvar">>)

\* 'myVar' was not declared in this scope, classified
\* UndeclaredVariable("myvar")
C6_Witness ==
    /\ ReturnedCpp
    /\ Contains(Diag.message, <<"'", "myVar", "'", SP, "was not declared">>)
    /\ Diag.error_type = UndeclaredVariable(<<"myvar">>)

(***************************************************************************)
(* Notions of the Python properties.                                       *)
(***************************************************************************)
\* the Python extractor has been consulted
PythonConsulted == Len(consulted) >= 2

\* the Python extractor has yielded the diagnostic parse_error returned
PythonYielded == Returned /\ consulted = <<"cpp", "python">> /\ IsSome(parsed)

\* the kind a generic Python error name and its detail stand for
PyKind(name, detail) ==
    CASE name = <<"SyntaxError">> -> SyntaxError(detail)
      [] name = <<"IndentationError">> -> IndentationError
      [] name = <<"TypeError">> -> TypeError(detail)
      [] name = <<"KeyError">> -> KeyError(detail)
      [] name = <<"AttributeError">> -> AttributeError(detail)
      [] name = <<"ValueError">> -> ValueError(detail)
      [] name = <<"NameError">> ->
            IF IsSome(QuotedAfter(detail, <<"name", SP>>, <<SP, "is not defined">>))
            THEN UndeclaredVariable(
                     Unwrap(QuotedAfter(detail, <<"name", SP>>, <<SP, "is not defined">>)))
            ELSE Unknown(detail)
      [] name \in {<<"ImportError">>, <<"ModuleNotFoundError">>} ->
            IF IsSome(QuotedAfter(detail, <<"No module named", SP>>, <<>>))
            THEN ImportError(Unwrap(QuotedAfter(detail, <<"No module named", SP>>, <<>>)))
            ELSE ImportError(detail)

(***************************************************************************)
(* C7.  A text with a requests.exceptions.Name: detail occurrence gets its *)
(* diagnostic from that occurrence, whatever generic Python error names    *)
(* and File marker it also has: the language is Python, the column is      *)
(* absent, and the kind is MissingEnvVar(detail) if and only if Name is    *)
(* MissingSchema or the detail contains None (in this letter case), and    *)
(* RequestsError("Name: detail") otherwise.                                *)
(***************************************************************************)
C7_RequestsFirst ==
    PythonConsulted /\ IsSome(RequestsCaptures(input)) =>
        LET r == Unwrap(RequestsCaptures(input))
        IN /\ PythonYielded
           /\ Diag.language = "Python"
           /\ Diag.column = None
           /\ Diag.error_type =
                  IF r.name = <<"MissingSchema">> \/ Contains(r.details, <<"None">>)
                  THEN MissingEnvVar(r.details)
                  ELSE RequestsError(r.name \o <<": ">> \o r.details)

\* a text with a File marker, a generic TypeError line and a requests line
\* whose detail has no None: the diagnostic is a RequestsError
C7_Witness ==
    /\ PythonYielded
    /\ IsSome(PyFileCaptures(input))
    /\ \E k \in 1..Len(input) : PyNameMatchAt(input, k)
    /\ Diag.error_type.tag = "RequestsError"
    /\ Diag.error_type.arg[1] = "ConnectionError"

(***************************************************************************)
(* C8, as claimed.  For every text that does not contain the marker        *)
(* File "path.py", line n  the Python extractor returns None.              *)
(***************************************************************************)
C8_AsClaimed ==
    PythonConsulted /\ IsNone(PyFileCaptures(input)) => ~PythonYielded

(***************************************************************************)
(* C8, amended.  For every text that contains neither the marker           *)
(* File "path.py", line n  nor a requests.exceptions line the Python       *)
(* extractor returns None; for a text without the marker but with a        *)
(* requests.exceptions line it returns a Python diagnostic whose file is   *)
(* unknown.py and whose line and column are absent.                        *)
(***************************************************************************)
C8_MarkerOrRequests ==
    PythonConsulted /\ IsNone(PyFileCaptures(input)) =>
        IF IsSome(RequestsCaptures(input))
        THEN /\ PythonYielded
             /\ Diag.language = "Python"
             /\ Diag.file = <<"unknown", ".", "py">>
             /\ Diag.line = None
             /\ Diag.column = None
        ELSE ~PythonYielded

\* a text with a generic Python error line but neither marker nor requests
\* line: the Python extractor has returned None
C8_Witness ==
    /\ PythonConsulted
    /\ IsNone(PyFileCaptures(input))
    /\ IsNone(RequestsCaptures(input))
    /\ IsSome(PyErrorCaptures(input))
    /\ ~PythonYielded
    /\ pc # "python"

(***************************************************************************)
(* C9.  For a text with the File marker, no requests.exceptions line and a *)
(* first generic error occurrence ErrName: detail, the diagnostic of the   *)
(* Python extractor has language Python, the file and the line of the      *)
(* marker, no column, and the kind ErrName stands for: SyntaxError(detail),*)
(* IndentationError, TypeError(detail), KeyError(detail),                  *)
(* AttributeError(detail), ValueError(detail); for NameError               *)
(* UndeclaredVariable(x) when the detail matches name 'x' is not defined   *)
(* and Unknown(detail) otherwise; for ImportError and ModuleNotFoundError  *)
(* ImportError(x) when the detail matches No module named 'x' and          *)
(* ImportError(detail) otherwise.  The extractor yields this diagnostic    *)
(* whenever the line number of the marker is at most 2^32 - 1.             *)
(***************************************************************************)
C9_GenericKinds ==
    PythonConsulted /\ IsSome(PyFileCaptures(input))
      /\ IsNone(RequestsCaptures(input)) /\ IsSome(PyErrorCaptures(input)) =>
        LET f == Unwrap(PyFileCaptures(input))
            e == Unwrap(PyErrorCaptures(input))
        IN /\ FitsU32(f.line) => PythonYielded
           /\ PythonYielded =>
                 /\ Diag.language = "Python"
                 /\ Diag.file = f.file
                 /\ IsNumber(Diag.line, f.line)
                 /\ Diag.column = None
                 /\ Diag.error_type = PyKind(e.name, e.details)

\* File "app.py", line 15 with NameError: name 'undefined_var' is not
\* defined, classified UndeclaredVariable("undefined_var") at line 15
C9_Witness ==
    /\ PythonYielded
    /\ IsNone(RequestsCaptures(input))
    /\ Unwrap(PyErrorCaptures(input)).name = <<"NameError">>
    /\ Diag.error_type = UndeclaredVariable(<<"undefined_var">>)
    /\ Diag.file = <<"app", ".", "py">>
    /\ Diag.line = Some(U32(0, 15))

(***************************************************************************)
(* Notions of the JavaScript/TypeScript properties.                        *)
(***************************************************************************)
\* the JavaScript/TypeScript extractor has been consulted
JsConsulted == Len(consulted) >= 3

\* the JavaScript/TypeScript extractor has yielded the diagnostic parse_error
\* returned
JsYielded == Returned /\ consulted = <<"cpp", "python", "js">> /\ IsSome(parsed)

\* the kind a tsc error code and its message stand for
TscKind(code, message) ==
    IF code \in {<<"TS", "2", "3", "0", "4">>, <<"TS", "2", "5", "5", "2">>}
         /\ IsSome(QuotedAfter(message, <<"Cannot find name", SP>>, <<>>))
    THEN UndeclaredVariable(Unwrap(QuotedAfter(message, <<"Cannot find name", SP>>, <<>>)))
    ELSE IF code = <<"TS", "2", "3", "0", "7">> THEN ModuleNotFound(message)
    ELSE Unknown(message)

(***************************************************************************)
(* C10.  A text containing the tsc shape file.ts(line,col): error TScode:  *)
(* message is classified by the TypeScript branch and never by the generic *)
(* JavaScript/TypeScript rule, also when it satisfies the generic rule:    *)
(* the diagnostic of the extractor has language TypeScript, the file, line *)
(* and column of the shape, and kind UndeclaredVariable(x) for the codes   *)
(* TS2304 and TS2552 when the message matches Cannot find name 'x',        *)
(* ModuleNotFound(message) for TS2307, and Unknown(message) otherwise.     *)
(* The extractor yields this diagnostic whenever the line and the column   *)
(* are at most 2^32 - 1.                                                   *)
(***************************************************************************)
C10_TscFirst ==
    JsConsulted /\ IsSome(TscCaptures(input)) =>
        LET t == Unwrap(TscCaptures(input))
        IN /\ FitsU32(t.line) /\ FitsU32(t.col) => JsYielded
           /\ JsYielded =>
                 /\ Diag.language = "TypeScript"
                 /\ Diag.file = t.file
                 /\ IsNumber(Diag.line, t.line)
                 /\ IsNumber(Diag.column, t.col)
                 /\ Diag.error_type = TscKind(t.code, t.message)

\* a text that satisfies the generic rule (app.js:15:20 and a ReferenceError
\* line) and has a tsc line: the diagnostic is the one of the tsc line
C10_Witness ==
    /\ JsYielded
    /\ IsSome(TscCaptures(input))
    /\ IsSome(JsFileCaptures(input))
    /\ IsSome(JsErrorCaptures(input))
    /\ Unwrap(JsFileCaptures(input)).ext = "js"
    /\ Diag.language = "TypeScript"
    /\ Diag.error_type = UndeclaredVariable(<<"unknownType">>)
    /\ Diag.line = Some(U32(0, 10))
    /\ Diag.column = Some(U32(0, 15))

JsKind(name, detail) ==
    CASE name = <<"SyntaxError">> -> SyntaxError(detail)
      [] name = <<"TypeError">> -> TypeError(detail)
      [] name = <<"ReferenceError">> /\ IsSome(NotDefinedCapture(detail)) ->
            UndeclaredVariable(Unwrap(NotDefinedCapture(detail)))
      [] OTHER -> Unknown(detail)

(***************************************************************************)
(* C12.  A diagnostic of the generic JavaScript/TypeScript rule has the    *)
(* kind its first error occurrence Name: detail stands for:                *)
(* SyntaxError(detail) for SyntaxError, TypeError(detail) for TypeError,   *)
(* UndeclaredVariable(word) for a ReferenceError whose detail matches      *)
(* word is not defined, and Unknown(detail) in every other case.           *)
(***************************************************************************)
C12_GenericKinds ==
    JsYielded /\ IsNone(TscCaptures(input)) =>
        /\ Diag.error_type = JsKind(Unwrap(JsErrorCaptures(input)).name,
                                    Unwrap(JsErrorCaptures(input)).details)
        /\ Diag.message = <<"ReferenceError", ": ", "myFunction", SP, "is not defined">>
              => Diag.error_type = UndeclaredVariable(<<"myFunction">>)

\* a ReferenceError whose detail does not match, classified Unknown(detail)
C12_Witness ==
    /\ JsYielded
    /\ IsNone(TscCaptures(input))
    /\ Unwrap(JsErrorCaptures(input)).name = <<"ReferenceError">>
    /\ Diag.error_type = Unknown(<<"invalid syntax">>)

(***************************************************************************)
(* Notions of the Rust properties.                                         *)
(***************************************************************************)
\* the Rust extractor has been consulted
RustConsulted == consulted = Order

\* the Rust extractor has yielded the diagnostic parse_error returned
RustYielded == Returned /\ RustConsulted /\ IsSome(parsed)

(***************************************************************************)
(* C13.  The Rust extractor yields a diagnostic only when the text has     *)
(* both an error[Ecode]: message occurrence and a --> file:line:col        *)
(* occurrence, and returns None when either is missing.  When both are     *)
(* present its diagnostic has language Rust, the message of the first      *)
(* error occurrence and the file, line and column of the first location    *)
(* occurrence (src/main.rs, 5, 10 for  --> src/main.rs:5:10); it yields    *)
(* this diagnostic whenever line and column are at most 2^32 - 1.          *)
(***************************************************************************)
C13_RustBoth ==
    Returned /\ RustConsulted =>
        /\ IsNone(RustErrorCapture(input)) \/ IsNone(RustLocCaptures(input))
              => parsed = None
        /\ IsSome(RustErrorCapture(input)) /\ IsSome(RustLocCaptures(input)) =>
              LET l == Unwrap(RustLocCaptures(input))
              IN /\ FitsU32(l.line) /\ FitsU32(l.col) => RustYielded
                 /\ RustYielded =>
                       /\ Diag.language = "Rust"
                       /\ Diag.message = Unwrap(RustErrorCapture(input))
                       /\ Diag.file = l.file
                       /\ IsNumber(Diag.line, l.line)
                       /\ IsNumber(Diag.column, l.col)
        /\ input = RustBlock =>
              /\ RustYielded
              /\ Diag.file = <<"src", "/", "main", ".", "rs">>
              /\ Diag.line = Some(U32(0, 5))
              /\ Diag.column = Some(U32(0, 10))

\* a text whose location line stands before its error line: a Rust
\* diagnostic at src/main.rs:5:10
C13_Witness ==
    /\ RustYielded
    /\ MinPos({k \in 1..Len(input) : RustLocMatchAt(input, k)})
         < MinPos({k \in 1..Len(input) : RustErrorMatchAt(input, k)})
    /\ Diag.language = "Rust"
    /\ Diag.file = <<"src", "/", "main", ".", "rs">>
    /\ Diag.line = Some(U32(0, 5))
    /\ Diag.column = Some(U32(0, 10))

(***************************************************************************)
(* C14.  For every Rust diagnostic: a message that matches                 *)
(* cannot find (value|type) BQxBQ is classified UndeclaredVariable(x); any *)
(* other message that contains borrow is classified BorrowError(message);  *)
(* only a message that neither matches the pattern nor contains borrow is  *)
(* classified Unknown(message).                                            *)
(***************************************************************************)
C14_RustKinds ==
    RustYielded =>
        Diag.error_type =
            IF IsSome(CannotFindCapture(Diag.message))
            THEN UndeclaredVariable(Unwrap(CannotFindCapture(Diag.message)))
            ELSE IF Contains(Diag.message, <<"borrow">>)
                 THEN BorrowError(Diag.message)
                 ELSE Unknown(Diag.message)

(***************************************************************************)
(* C15.  Every diagnostic parse_error returns has 1-based positions: a     *)
(* line that is present is at least 1 and a column that is present is at   *)
(* least 1.                                                                *)
(***************************************************************************)
C15_OneBased ==
    Returned /\ IsSome(parsed) =>
        /\ IsSome(Diag.line) => Unwrap(Diag.line) # U32(0, 0)
        /\ IsSome(Diag.column) => Unwrap(Diag.column) # U32(0, 0)

(***************************************************************************)
(* Notions of the properties of analyze_error.                             *)
(***************************************************************************)
\* analyze_error has returned
Finished == pc = "returned"

\* the i-th thing printed is a call of f
Printed(i, f) == i <= Len(out) /\ out[i].fn = f

\* the four canned instructions of the fallback
CannedInstructions == {<<"Add a semicolon (;) at the end of the line.">>, <<"You're using something that hasn't been imported/included.\nAdd the appropriate #include or import statement at the top of your file.">>, <<"Variable is not defined.\nEither declare it before using, or check for typos in the name.">>, <<"Syntax error - check for:\n<bullet> Missing or extra brackets { } [ ] ( )\n<bullet> Unclosed strings\n<bullet> Missing semicolons or commas">>}

\* outcome: the diagnostic was shown and its remediation was run
OutcomeRemediation ==
    /\ IsSome(parsed)
    /\ Printed(2, "println") /\ Printed(3, "print_info")
    /\ Printed(4, "print_file_location") /\ Printed(5, "println")
    /\ Printed(6, "print_error") /\ out[6].args = <<Diag.message>>

\* outcome: the notices of the fallback, then one canned instruction
OutcomeInstruction ==
    /\ Len(out) = 5
    /\ Printed(2, "print_warning") /\ Printed(3, "print_info") /\ Printed(4, "println")
    /\ Printed(5, "print_fix_instruction")
    /\ \E c \in CannedInstructions : out[5].args = <<c>>

\* outcome: the notices of the fallback, then the report of an unknown
\* pattern and the hint
OutcomeUnknownPattern ==
    /\ Len(out) = 6
    /\ Printed(2, "print_warning") /\ Printed(3, "print_info") /\ Printed(4, "println")
    /\ Printed(5, "print_error") /\ out[5].args = <<<<"Unknown error pattern">>>>
    /\ Printed(6, "print_hint") /\ out[6].args = <<<<"Try 'ess list' to see supported error types">>>>

ExactlyOne(a, b, c) == (a /\ ~b /\ ~c) \/ (~a /\ b /\ ~c) \/ (~a /\ ~b /\ c)

\* how far analyze_error has come
Rank(p) ==
    CASE p = "start" -> 0
      [] p = "cpp" -> 1
      [] p = "python" -> 2
      [] p = "js" -> 3
      [] p = "rust" -> 4
      [] p = "done" -> 5
      [] p = "returned" -> 6

\* analyze_error is at a statement it can execute: the section title, an
\* extractor, or one of the two branches of if let Some(error)
CanStep ==
    \/ pc \in {"start", "cpp", "python", "js", "rust"}
    \/ pc = "done" /\ (IsSome(parsed) \/ IsNone(parsed))

(***************************************************************************)
(* C16.  analyze_error is total: on every input text (a well-formed        *)
(* diagnostic, arbitrary text, the empty text) it is never stuck before    *)
(* its end and every step brings it nearer to its end, its result is       *)
(* never anything but Ok, and when it has returned exactly one of three    *)
(* outcomes has happened: the remediation of the parsed diagnostic, a      *)
(* canned instruction of the fallback, or the report "Unknown error        *)
(* pattern".                                                               *)
(***************************************************************************)
C16_Total ==
    /\ [](ret \in {None, Some(Ok)})
    /\ [](~Finished => CanStep /\ ret = None)
    /\ [](Finished =>
            /\ ret = Some(Ok)
            /\ Printed(1, "print_section") /\ out[1].args = <<<<"Analyzing Error">>>>
            /\ ExactlyOne(OutcomeRemediation, OutcomeInstruction, OutcomeUnknownPattern))
    /\ [][Rank(pc') > Rank(pc)]_vars

\* the empty text: analyze_error has returned Ok after the report of an
\* unknown pattern
C16_Witness ==
    /\ Finished
    /\ input = <<>>
    /\ ret = Some(Ok)
    /\ OutcomeUnknownPattern

Applied == pc = "applied"

\* the k-th check of the fallback on a lower-cased text
CheckMatches(k, lower) ==
    CASE k = 1 -> Contains(lower, <<"expected", SP, "'", ";", "'">>)
                    \/ Contains(lower, <<"missing semicolon">>)
      [] k = 2 -> Contains(lower, <<"is not a member of">>)
                    \/ Contains(lower, <<"was not declared">>)
      [] k = 3 -> Contains(lower, <<"is not defined">>)
                    \/ Contains(lower, <<"undeclared">>)
      [] k = 4 -> Contains(lower, <<"un", "expected", SP, "token">>)
                    \/ Contains(lower, <<"was never closed">>)

\* the canned instruction of the k-th check
Instruction(k) ==
    CASE k = 1 -> <<"Add a semicolon (;) at the end of the line.">>
      [] k = 2 -> <<"You're using something that hasn't been imported/included.\nAdd the appropriate #include or import statement at the top of your file.">>
      [] k = 3 -> <<"Variable is not defined.\nEither declare it before using, or check for typos in the name.">>
      [] k = 4 -> <<"Syntax error - check for:\n<bullet> Missing or extra brackets { } [ ] ( )\n<bullet> Unclosed strings\n<bullet> Missing semicolons or commas">>

(***************************************************************************)
(* C18.  try_common_patterns applies four checks to the lower-cased text   *)
(* in the order (1) expected ';' or missing semicolon, (2) is not a member *)
(* of or was not declared, (3) is not defined or undeclared, (4)           *)
(* unexpected token or was never closed, and returns the canned            *)
(* instruction of the first check that matches: a text with a semicolon    *)
(* marker and unexpected token gets the semicolon instruction.  It returns *)
(* None if and only if no check matches.                                   *)
(***************************************************************************)
C18_FirstCheckWins ==
    Applied =>
        LET lower == to_lowercase(input)
            hits == {k \in 1..4 : CheckMatches(k, lower)}
            result == Unwrap(fix)
        IN /\ IsSome(fix)
           /\ result = None <=> hits = {}
           /\ hits # {} =>
                 result = Some(Instruction(CHOOSE k \in hits : \A h \in hits : k <= h))
           /\ CheckMatches(1, lower) /\ CheckMatches(4, lower) =>
                 result = Some(<<"Add a semicolon (;) at the end of the line.">>)

\* a text whose first line has unexpected token and whose second line has
\* the semicolon marker: the semicolon instruction
C18_Witness ==
    /\ Applied
    /\ input = PySyntaxToken \o <<NL>> \o FbSemicolon
    /\ fix = Some(Some(<<"Add a semicolon (;) at the end of the line.">>))

(***************************************************************************)
(* C19.  In analyze_error the fallback try_common_patterns is evaluated if *)
(* and only if parse_error returned None for the same text, and never      *)
(* before parse_error has returned.  When parse_error returned a           *)
(* diagnostic, what is printed after the section title and the diagnostic  *)
(* is the remediation of that diagnostic and nothing else.                 *)
(***************************************************************************)
C19_FallbackOnlyOnNone ==
    /\ ~Finished => fix = None
    /\ Finished =>
          /\ parsed = parse_error(input)
          /\ IsSome(fix) <=> IsNone(parsed)
          /\ IsNone(parsed) => Unwrap(fix) = try_common_patterns(input)
          /\ IsSome(parsed) =>
                /\ SubSeq(out, 2, 6) = show_parsed_error(Diag)
                /\ SubSeq(out, 7, Len(out)) = show_fix_for_error(Diag)
                /\ \A i \in 1..Len(out) :
                      out[i].fn = "print_fix_instruction" =>
                          \A c \in CannedInstructions : out[i].args # <<c>>

\* a C++ diagnostic whose text also has the semicolon marker of the
\* fallback: the remediation was printed and the fallback was not evaluated
C19_Witness ==
    /\ Finished
    /\ IsSome(parsed)
    /\ Diag.error_type = MissingSemicolon
    /\ IsSome(try_common_patterns(input))
    /\ fix = None
    /\ Len(out) = 8

(***************************************************************************)
(* Notions of the remediation dispatcher.                                  *)
(***************************************************************************)
\* show_fix_for_error has been applied to the diagnostic
Remediated == pc = "remediated"

\* a diff or an instruction has been printed
FixEmitted ==
    \E i \in 1..Len(out) : out[i].fn \in {"print_diff", "print_fix_instruction"}

(***************************************************************************)
(* C20.  For a MissingInclude(header) diagnostic the dispatcher prints a   *)
(* fix, the diff that inserts #include <header> and the instruction, if    *)
(* and only if the language is Cpp; for a MissingSemicolon diagnostic it   *)
(* prints a fix, the diff statement; and the instruction, if and only if   *)
(* the language is Cpp, JavaScript or TypeScript; in every other language  *)
(* these two kinds print nothing.                                          *)
(***************************************************************************)
C20_LanguageGated ==
    Remediated =>
        LET kind == Diag.error_type
            header == kind.arg
        IN /\ kind.tag = "MissingInclude" =>
                 /\ FixEmitted <=> Diag.language = "Cpp"
                 /\ Diag.language = "Cpp" =>
                       out = << [fn |-> "print_diff",
                                 args |-> << <<"// Your current code">>,
                                             <<"#include <">> \o header \o <<">\n// Your code">> >>],
                                [fn |-> "print_fix_instruction",
                                 args |-> << <<"Add this line at the top of your file:\n\n  #include <">>
                                             \o header \o <<">">> >>] >>
                 /\ Diag.language # "Cpp" => out = <<>>
           /\ kind.tag = "MissingSemicolon" =>
                 /\ FixEmitted <=> Diag.language \in {"Cpp", "JavaScript", "TypeScript"}
                 /\ Diag.language \in {"Cpp", "JavaScript", "TypeScript"} =>
                       out = << [fn |-> "print_diff", args |-> << <<"statement  // missing semicolon">>, <<"statement;">> >>],
                                [fn |-> "print_fix_instruction", args |-> << <<"Add a semicolon at the end of the line indicated in the error.\n\nLook for the line number in the error message and add ';' at the end.">> >>] >>
                 /\ Diag.language \notin {"Cpp", "JavaScript", "TypeScript"} => out = <<>>

\* a MissingInclude diagnostic in Python: nothing is printed
C20_Witness ==
    /\ Remediated
    /\ Diag.error_type = MissingInclude(<<"vector">>)
    /\ Diag.language = "Python"
    /\ out = <<>>

(***************************************************************************)
(* Notions of the remediation of one kind.                                 *)
(***************************************************************************)
\* the kind of the diagnostic given to the dispatcher, and what it carries
Kind == Diag.error_type.tag

Payload == Diag.error_type.arg

\* a diff has been printed
DiffEmitted == \E i \in 1..Len(out) : out[i].fn = "print_diff"

\* the instructions that have been printed, in order
InstructionsEmitted ==
    SelectSeq(out, LAMBDA e : e.fn = "print_fix_instruction")

\* the names of the standard types the include suggestion knows
StdNames ==
    {"vector", "string", "map", "set", "list", "deque", "array",
     "unique_ptr", "shared_ptr", "optional", "variant"}

(***************************************************************************)
(* C21.  For an UndeclaredVariable(name) diagnostic in Cpp the dispatcher  *)
(* prints the include suggestion, the diff from std::name to               *)
(* #include <lower-cased name> and std::name, if and only if the           *)
(* lower-cased name is one of vector, string, map, set, list, deque,       *)
(* array, unique_ptr, shared_ptr, optional, variant, and then no           *)
(* instruction; for every other name it prints the instruction with the    *)
(* three options and no diff.  vector, Vector and VECTOR get the same      *)
(* include line.                                                           *)
(***************************************************************************)
C21_StdTypeDiff ==
    Remediated /\ Kind = "UndeclaredVariable" /\ Diag.language = "Cpp" =>
        LET name == Payload
            std == \E n \in StdNames : to_lowercase(name) = <<n>>
        IN /\ DiffEmitted <=> std
           /\ std =>
                 /\ out[Len(out)] =
                       [fn |-> "print_diff",
                        args |-> << <<"std::">> \o name, <<"#include <">> \o to_lowercase(name) \o <<">\nstd::">> \o name >>]
                 /\ InstructionsEmitted = <<>>
           /\ ~std =>
                 InstructionsEmitted =
                     << [fn |-> "print_fix_instruction", args |-> << <<"Options:\n\n1. Check spelling of '">> \o name \o <<"'\n2. Declare the variable before using it:\n   int ">> \o name \o <<" = 0;\n3. Check if it's defined in a different scope">> >>] >>
           /\ name \in {<<"vector">>, <<"Vector">>, <<"VECTOR">>} =>
                 /\ DiffEmitted
                 /\ out[Len(out)].args[2] = <<"#include <", "vector", ">\nstd::">> \o name

\* the name VECTOR in Cpp: the include suggestion for <vector>
C21_Witness ==
    /\ Remediated
    /\ Diag.error_type = UndeclaredVariable(<<"VECTOR">>)
    /\ Diag.language = "Cpp"
    /\ DiffEmitted
    /\ InstructionsEmitted = <<>>

\* the rule of the SyntaxError remediation a detail falls under
SyntaxRule(details) ==
    LET lower == to_lowercase(details)
    IN CASE Contains(lower, <<"un", "expected", SP, "token">>) -> 1
         [] Contains(lower, <<"was never closed">>)
              \/ Contains(lower, <<"unterminated">>) -> 2
         [] Contains(lower, <<"expected">>) -> 3
         [] OTHER -> 4

(***************************************************************************)
(* C22.  For a SyntaxError(detail) diagnostic the dispatcher prints one    *)
(* instruction, chosen by the first rule the lower-cased detail matches:   *)
(* unexpected token gives the checklist of brackets, commas and strings;   *)
(* was never closed or unterminated gives the checklist of matching        *)
(* pairs; expected gives the message that the parser expected something,   *)
(* with the detail as written; anything else gives the generic message     *)
(* with the detail as written.  The choice is the same in every language.  *)
(***************************************************************************)
C22_SyntaxTemplates ==
    Remediated /\ Kind = "SyntaxError" =>
        LET details == Payload
            rule == SyntaxRule(details)
        IN /\ Len(out) = 3
           /\ out[1] = [fn |-> "print_section", args |-> << <<"Syntax Error">> >>]
           /\ out[2] = [fn |-> "println", args |-> << <<>> >>]
           /\ out[3].fn = "print_fix_instruction"
           /\ out[3].args =
                 << CASE rule = 1 -> <<"Check for:\n\n1. Missing or extra brackets: { } [ ] ( )\n2. Missing commas in arrays or objects\n3. Unclosed strings\n4. Missing operators">>
                      [] rule = 2 -> <<"You have an unclosed bracket or string.\n\nCheck for matching pairs:\n<bullet> ( must have )\n<bullet> { must have }\n<bullet> [ must have ]\n<bullet> \" must have \"\n<bullet> ' must have '">>
                      [] rule = 3 -> <<"The parser expected something that wasn't there.\n\nError: ">> \o details \o <<"\n\nCheck the line number in the error for missing syntax.">>
                      [] rule = 4 -> <<"Syntax error: ">> \o details \o <<"\n\nCheck the line indicated in the error for typos or missing syntax.">> >>

\* a detail with expected and was never closed, in Rust: the checklist of
\* matching pairs
C22_Witness ==
    /\ Remediated
    /\ Diag.error_type =
          SyntaxError(<<"expected", SP, "'", ")", "'", SP, "was never closed">>)
    /\ Diag.language = "Rust"
    /\ out[3].args = << <<"You have an unclosed bracket or string.\n\nCheck for matching pairs:\n<bullet> ( must have )\n<bullet> { must have }\n<bullet> [ must have ]\n<bullet> \" must have \"\n<bullet> ' must have '">> >>

\* the body with the pip command
PipBody(module) == <<"Module '">> \o module \o <<"' not found.\n\nOptions:\n\n1. Install the module:\n   pip install ">> \o module \o <<"\n\n2. Check if it's a local module - verify the file exists\n\n3. Check your PYTHONPATH if it's a custom module">>

\* the body with the npm command
NpmBody(module) == <<"Cannot find module '">> \o module \o <<"'\n\nOptions:\n\n1. Install the package:\n   npm install ">> \o module \o <<"\n\n2. If it's a local file, check the path:\n   import x from './">> \o module \o <<"'\n\n3. Check tsconfig.json paths if using TypeScript">>

RequestsRule(details) ==
    CASE Contains(details, <<"ConnectionError">>)
           \/ Contains(details, <<"connect">>) -> 1
      [] Contains(details, <<"Timeout">>) -> 2
      [] OTHER -> 3

(***************************************************************************)
(* C24.  For a RequestsError(detail) diagnostic the dispatcher prints the  *)
(* section title, the detail, and one instruction chosen by the first rule *)
(* the detail matches: ConnectionError or connect gives the connectivity   *)
(* checklist; Timeout gives the timeout and retry checklist; anything else *)
(* gives the try/except template.  A detail with connect and Timeout gets  *)
(* the connectivity checklist.                                             *)
(***************************************************************************)
C24_RequestsTemplates ==
    Remediated /\ Kind = "RequestsError" =>
        LET details == Payload
            rule == RequestsRule(details)
        IN /\ Len(out) = 5
           /\ out[1] = [fn |-> "print_section", args |-> << <<"Requests Library Error">> >>]
           /\ out[3] = [fn |-> "print_error", args |-> <<details>>]
           /\ out[5].fn = "print_fix_instruction"
           /\ out[5].args =
                 << CASE rule = 1 -> <<"Could not connect to the server.\n\nCheck:\n1. Is the URL correct?\n2. Is the server running?\n3. Is your internet connection working?\n4. Is there a firewall blocking the request?">>
                      [] rule = 2 -> <<"Request timed out.\n\nFix:\n1. Increase the timeout:\nrequests.get(url, timeout=30)\n\n2. Check if the server is slow/overloaded\n3. Add retry logic:\nfrom requests.adapters import HTTPAdapter\nfrom urllib3.util.retry import Retry">>
                      [] rule = 3 -> <<"Add proper error handling:\n\ntry:\nresponse = requests.get(url, timeout=10)\nresponse.raise_for_status()\nexcept requests.exceptions.RequestException as e:\nprint(f\"Request failed: {e}\")">> >>
           /\ Contains(details, <<"connect">>) /\ Contains(details, <<"Timeout">>) =>
                 out[5].args = << <<"Could not connect to the server.\n\nCheck:\n1. Is the URL correct?\n2. Is the server running?\n3. Is your internet connection working?\n4. Is there a firewall blocking the request?">> >>

\* a detail with Timeout and connect: the connectivity checklist
C24_Witness ==
    /\ Remediated
    /\ Diag.error_type =
          RequestsError(<<"Timeout", ": ", "Failed", SP, "to", SP, "connect">>)
    /\ out[5].args = << <<"Could not connect to the server.\n\nCheck:\n1. Is the URL correct?\n2. Is the server running?\n3. Is your internet connection working?\n4. Is there a firewall blocking the request?">> >>

(***************************************************************************)
(* C25.  For an Unknown(msg) diagnostic, in every language, the dispatcher *)
(* prints no diff and no instruction; what it prints is the notice         *)
(* No automatic fix for: msg, with msg as written, and the hint.  The      *)
(* output is never empty.                                                  *)
(***************************************************************************)
C25_UnknownNotice ==
    Remediated /\ Kind = "Unknown" =>
        /\ ~FixEmitted
        /\ out # <<>>
        /\ out = << [fn |-> "print_warning",
                     args |-> << <<"No automatic fix for: ">> \o Payload >>],
                    [fn |-> "print_hint", args |-> << <<"Check the error message and fix manually">> >>] >>

\* an Unknown diagnostic with capitals in its message, in the language
\* Unknown: the notice carries the message as written
C25_Witness ==
    /\ Remediated
    /\ Diag.error_type = Unknown(<<"Unterminated", SP, "string">>)
    /\ Diag.language = "Unknown"
    /\ Len(out) = 2
    /\ out[1].args = << <<"No automatic fix for: ", "Unterminated", SP, "string">> >>

(***************************************************************************)
(* Notions of the query of the configuration.                              *)
(***************************************************************************)
\* is_language_enabled has answered
Checked == pc = "checked"

\* the names of a list, lower-cased
LowerNames(list) == {to_lowercase(list[i]) : i \in 1..Len(list)}

(***************************************************************************)
(* C26.  is_language_enabled(lang) compares names without regard to case:  *)
(* it answers false when lang is in the disabled list, also when lang is   *)
(* in the enabled list as well; otherwise true when the enabled list is    *)
(* empty; otherwise true exactly when lang is in the enabled list.  With   *)
(* Python enabled, python, Python and PYTHON are enabled and rust is not.  *)
(***************************************************************************)
C26_DisabledWins ==
    Checked =>
        LET lang == to_lowercase(input)
            enabled == LowerNames(config.languages.enabled)
            disabled == LowerNames(config.languages.disabled)
        IN /\ lang \in disabled => ret = Some(FALSE)
           /\ lang \notin disabled /\ config.languages.enabled = <<>> => ret = Some(TRUE)
           /\ lang \notin disabled /\ config.languages.enabled # <<>> =>
                 ret = Some(lang \in enabled)
           /\ config.languages = [enabled |-> << <<"Python">> >>, disabled |-> <<>>] =>
                 ret = Some(input \in {<<"python">>, <<"Python">>, <<"PYTHON">>})

\* PYTHON asked for with Python enabled and python disabled: not enabled
C26_Witness ==
    /\ Checked
    /\ input = <<"PYTHON">>
    /\ config.languages = [enabled |-> << <<"Python">> >>, disabled |-> << <<"python">> >>]
    /\ ret = Some(FALSE)

(***************************************************************************)
(* C27.  Every diagnostic parse_error returns has a language other than    *)
(* Unknown, and its kind goes with its language: MissingInclude and        *)
(* MissingSemicolon only with Cpp; IndentationError, ImportError,          *)
(* KeyError, AttributeError, ValueError, MissingEnvVar and RequestsError   *)
(* only with Python; ModuleNotFound only with TypeScript; BorrowError only *)
(* with Rust; SyntaxError and TypeError never with Cpp or Rust.            *)
(***************************************************************************)
C27_KindLanguage ==
    Returned /\ IsSome(parsed) =>
        /\ Diag.language \in Language \ {"Unknown"}
        /\ Kind \in {"MissingInclude", "MissingSemicolon"} => Diag.language = "Cpp"
        /\ Kind \in {"IndentationError", "ImportError", "KeyError", "AttributeError",
                     "ValueError", "MissingEnvVar", "RequestsError"} =>
              Diag.language = "Python"
        /\ Kind = "ModuleNotFound" => Diag.language = "TypeScript"
        /\ Kind = "BorrowError" => Diag.language = "Rust"
        /\ Kind \in {"SyntaxError", "TypeError"} => Diag.language \notin {"Cpp", "Rust"}

\* a TypeError line of Python form with a TypeScript location: the
\* diagnostic is a TypeError in TypeScript
C27_Witness ==
    /\ Returned
    /\ IsSome(parsed)
    /\ input = PyType \o <<NL>> \o TsLocNoCol
    /\ Kind = "TypeError"
    /\ Diag.language = "TypeScript"

\* a digit string denotes a value above 2^32 - 1
Overflows(ds) == ~FitsU32(ds)

\* after the extractor at position k of Order has yielded nothing,
\* parse_error has gone on through the later ones in order, up to the first
\* that yields a diagnostic
WentOnAfter(k) ==
    /\ Len(consulted) > k
    /\ consulted = SubSeq(Order, 1, Len(consulted))
    /\ \A m \in k..(Len(consulted) - 1) : IsNone(Extract(Order[m], input))
    /\ parsed = Extract(Order[Len(consulted)], input)
    /\ IsNone(parsed) => Len(consulted) = Len(Order)

\* the numbers of the returned diagnostic are those of the digits that the
\* shape of the yielding extractor matched
PositionsAsWritten ==
    LET by == Order[Len(consulted)]
    IN CASE by = "cpp" ->
              /\ IsNumber(Diag.line, Unwrap(CppCaptures(input)).line)
              /\ IsNumber(Diag.column, Unwrap(CppCaptures(input)).col)
         [] by = "python" ->
              /\ IsNone(Diag.column)
              /\ IsSome(Diag.line) =>
                    IsNumber(Diag.line, Unwrap(PyFileCaptures(input)).line)
         [] by = "js" /\ IsSome(TscCaptures(input)) ->
              /\ IsNumber(Diag.line, Unwrap(TscCaptures(input)).line)
              /\ IsNumber(Diag.column, Unwrap(TscCaptures(input)).col)
         [] by = "js" /\ IsNone(TscCaptures(input)) ->
              /\ IsNumber(Diag.line, Unwrap(JsFileCaptures(input)).line)
              /\ IsSome(Diag.column) =>
                    /\ IsSome(Unwrap(JsFileCaptures(input)).col)
                    /\ IsNumber(Diag.column, Unwrap(Unwrap(JsFileCaptures(input)).col))
         [] by = "rust" ->
              /\ IsNumber(Diag.line, Unwrap(RustLocCaptures(input)).line)
              /\ IsNumber(Diag.column, Unwrap(RustLocCaptures(input)).col)

(***************************************************************************)
(* C28.  The line and the column of a returned diagnostic are the values   *)
(* of the digits matched, never a wrapped or shortened value.  When the    *)
(* line or column digits of the C++ shape denote a value above 2^32 - 1    *)
(* the C++ extractor returns None and parse_error goes on with the Python, *)
(* JS/TS and Rust extractors on the same text.  A line above 2^32 - 1      *)
(* makes the Python generic branch, the tsc branch, the generic JS branch  *)
(* and the Rust extractor return None.  In the Python requests branch such *)
(* a line, and in the generic JS branch such a column, is absent from the  *)
(* diagnostic.                                                             *)
(***************************************************************************)
C28_NoWrappedPosition ==
    Returned =>
        LET c == CppCaptures(input)
            f == PyFileCaptures(input)
            r == RequestsCaptures(input)
            e == PyErrorCaptures(input)
            t == TscCaptures(input)
            j == JsFileCaptures(input)
            je == JsErrorCaptures(input)
            re == RustErrorCapture(input)
            rl == RustLocCaptures(input)
        IN /\ IsSome(parsed) => PositionsAsWritten
           /\ IsSome(c) /\ (Overflows(Unwrap(c).line) \/ Overflows(Unwrap(c).col)) =>
                 /\ IsNone(parse_cpp_error(input))
                 /\ WentOnAfter(1)
           /\ IsNone(r) /\ IsSome(f) /\ IsSome(e) /\ Overflows(Unwrap(f).line) =>
                 IsNone(parse_python_error(input))
           /\ IsSome(r) /\ IsSome(f) /\ Overflows(Unwrap(f).line) =>
                 /\ IsSome(parse_python_error(input))
                 /\ IsNone(Unwrap(parse_python_error(input)).line)
           /\ IsSome(t) /\ Overflows(Unwrap(t).line) => IsNone(parse_js_error(input))
           /\ IsNone(t) /\ IsSome(j) /\ IsSome(je) /\ Overflows(Unwrap(j).line) =>
                 IsNone(parse_js_error(input))
           /\ (/\ IsNone(t) /\ IsSome(j) /\ IsSome(je) /\ FitsU32(Unwrap(j).line)
               /\ IsSome(Unwrap(j).col) /\ Overflows(Unwrap(Unwrap(j).col))) =>
                 /\ IsSome(parse_js_error(input))
                 /\ IsNone(Unwrap(parse_js_error(input)).column)
                 /\ IsNumber(Unwrap(parse_js_error(input)).line, Unwrap(j).line)
           /\ IsSome(re) /\ IsSome(rl) /\ Overflows(Unwrap(rl).line) =>
                 IsNone(parse_rust_error(input))

\* a C++ line with the column 4294967296, then a requests line: the C++
\* extractor yields nothing and the diagnostic is that of the Python one
C28_Witness ==
    /\ Returned
    /\ input = CppColOverflow \o <<NL>> \o PyReqConnect
    /\ consulted = <<"cpp", "python">>
    /\ IsSome(parsed)
    /\ Diag.language = "Python"

(***************************************************************************)
(* C29.  The C++ extractor gives the kind MissingInclude only to a message *)
(* whose lower-cased text contains  is not a member of 'std'  or           *)
(* was not declared.  A message with neither phrase is not given           *)
(* MissingInclude, whether or not the text has an #include <...> directive *)
(* and whether or not the message has one of the tokens vector, string,    *)
(* cout, cin, map, set.                                                    *)
(***************************************************************************)
C29_OnlyWithPhrase ==
    ReturnedCpp =>
        /\ Kind = "MissingInclude" => MissingIncludePhrase(Diag.message)
        /\ ~MissingIncludePhrase(Diag.message) =>
              /\ Kind \in {"MissingSemicolon", "UndeclaredVariable", "Unknown"}
              /\ detect_cpp_error_type(Diag.message, input).tag # "MissingInclude"

\* a message with the token vector and without either phrase, in a text
\* with an #include directive: the kind is Unknown
C29_Witness ==
    /\ ReturnedCpp
    /\ input = CppInclude \o <<NL>> \o CppUnknown
    /\ IsSome(IncludeCapture(input))
    /\ FirstToken(Diag.message) # 0
    /\ ~MissingIncludePhrase(Diag.message)
    /\ Kind = "Unknown"

(***************************************************************************)
(* Notions of the scan.                                                    *)
(***************************************************************************)
\* the numbers of the lines of a text that contain error:
ErrorLineNumbers(text) ==
    {i \in 1..Len(Lines(text)) : ContainsErrorColon(Lines(text)[i])}

\* the sum of the counts of the languages checked
RECURSIVE SumErrors(_)
SumErrors(es) == IF es = <<>> THEN 0 ELSE Head(es).errors + SumErrors(Tail(es))

\* the languages checked whose output went through process_compiler_errors
\* and had a line with error:
Analyzed == {i \in 1..Len(errors) : errors[i].lang \in {"TypeScript", "Rust"}
                                     /\ errors[i].errors >= 1}

\* what holds in every state of a scan
ScanInvariant ==
    /\ pc = "lines" =>
          count = Cardinality({i \in ErrorLineNumbers(input) : i < next_line})
    /\ Len(history) = Cardinality(Analyzed) + IF pc = "lines" /\ count >= 1 THEN 1 ELSE 0
    /\ \A i \in 1..Len(history) : history[i].fn = "analyze_error"
    /\ total_errors = SumErrors(errors)
    /\ \A i \in 1..Len(errors) : errors[i].lang = "Unknown" => errors[i].errors = 0
    /\ pc = "scanned" /\ errors # <<>> =>
          out[Len(out)] = IF SumErrors(errors) = 0 THEN print_no_errors
                          ELSE print_errors_found(SumErrors(errors))

\* what holds of every step of a scan
ScanStep ==
    /\ pc = "lines" /\ pc' = "loop" =>
          errors' = Append(errors, [lang |-> Head(languages),
                                    errors |-> Cardinality(ErrorLineNumbers(input))])
    /\ history' # history =>
          /\ pc = "lines"
          /\ next_line = MinPos(ErrorLineNumbers(input))
          /\ history' = Append(history, [fn |-> "analyze_error", arg |-> input, res |-> Ok])
    /\ pc = "lines" /\ next_line' # next_line /\ next_line = MinPos(ErrorLineNumbers(input)) =>
          history' # history

(***************************************************************************)
(* C30.  process_compiler_errors returns the number of lines of the output *)
(* that contain error:, and calls analyze_error on the whole output once,  *)
(* at the first such line, when there is such a line, and never when there *)
(* is none.  The total of scan_project is the sum of the counts of the     *)
(* languages checked, and the language Unknown counts 0.                   *)
(***************************************************************************)
C30_CountAndAnalyzeOnce == []ScanInvariant /\ [][ScanStep]_vars

\* a scan of Cpp and Rust: the output of cargo has a warning line and then
\* two lines with error:, analyze_error has been called once, and the total
\* is the count of Cpp plus 2
C30_Witness ==
    /\ pc = "scanned"
    /\ input = ScanBlock
    /\ errors = << [lang |-> "Cpp", errors |-> 1], [lang |-> "Rust", errors |-> 2] >>
    /\ total_errors = 3
    /\ Len(history) = 1
    /\ history[1].arg = ScanBlock
    /\ out[Len(out)] = print_errors_found(3)

====
